---- MODULE Spec2Model ----
(***************************************************************************)
(* Model of the per-tick simulation engine of the arcade game (GameCanvas  *)
(* update loop, src/unnamed/part_001) together with the input handlers of  *)
(* src/App.tsx.                                                            *)
(*                                                                         *)
(* Numbers.  The program computes with IEEE doubles.  The model uses fixed *)
(* point integers:                                                         *)
(*   - a mass is an integer number of 1/MassUnit (MassUnit = 2^12); the    *)
(*     operations that round in doubles (decay, division by the number of  *)
(*     virus fragments) round to multiples of MassGrain (2^6) mass units,  *)
(*     so that halving a mass stays exact, as it is for doubles;           *)
(*   - a position, radius or velocity is an integer number of 1/PosUnit    *)
(*     map units (PosUnit = 10^2);                                         *)
(*   - a direction cosine is an integer number of 1/DirUnit (10^3);        *)
(*   - a time is an integer number of milliseconds.                        *)
(* Square roots, powers and quotients of positions round to the nearest    *)
(* fixed point value.                                                      *)
(*                                                                         *)
(* One call of update() is one tick.  The tick is modelled as the chain of *)
(* its stages in program order; variable pc is the position inside the     *)
(* tick.  No handler runs between two stages (pc = "idle" guards them).    *)
(***************************************************************************)
EXTENDS Integers, Naturals, Sequences, FiniteSets, TLC

\* ------------------------------------------------------------ fixed point
MassUnit == 2^12
MassGrain == 2^6
PosUnit == 10^2
DirUnit == 10^3

Abs(a) == IF a < 0 THEN -a ELSE a
Max(a, b) == IF a > b THEN a ELSE b
Min(a, b) == IF a < b THEN a ELSE b

\* a / b rounded to the nearest integer, symmetric around 0 (b > 0)
RDiv(a, b) == IF a >= 0 THEN (a + b \div 2) \div b ELSE -((-a + b \div 2) \div b)

RECURSIVE Newton(_, _)
Newton(n, x) ==
    LET y == (x + n \div x) \div 2
    IN  IF y >= x THEN x ELSE Newton(n, y)

\* Math.sqrt on non-negative integers: floor of the square root
Isqrt(n) ==
    IF n <= 0 THEN 0
    ELSE Newton(n, IF n < 65536 THEN 256 ELSE IF n < 16777216 THEN 4096 ELSE 46341)

\* sqrt(dx*dx + dy*dy); operands beyond 15 bits are scaled so that the squares fit
Hypot(dx, dy) ==
    LET a == Abs(dx)
        b == Abs(dy)
    IN  IF a <= 32767 /\ b <= 32767
        THEN Isqrt(a * a + b * b)
        ELSE 32 * Isqrt((a \div 32) * (a \div 32) + (b \div 32) * (b \div 32))

\* ------------------------------------------------------------ constants.ts
MAP_WIDTH == 4000 * PosUnit
MAP_HEIGHT == 4000 * PosUnit
INITIAL_MASS == 15
MIN_MASS_TO_SPLIT == 35
MIN_MASS_TO_EJECT == 35
EJECT_MASS_LOSS == 16
EJECT_MASS_GAIN == 12
MAX_CELLS == 16
MERGE_COOLDOWN_MS == 15000
VIRUS_MASS == 100
VIRUS_BONUS_MASS == 150
BASE_SPEED == 6
SPLIT_IMPULSE == 25
EJECT_IMPULSE == 15
MASS_DECAY_THRESHOLD == 100
GAME_DURATION_MS == 12 * 60 * 1000
RESPAWN_DELAY_MS == 3000

\* a whole mass in mass units
M(m) == m * MassUnit

\* a computed mass rounded as the model rounds masses
RoundMass(mass) == RDiv(mass, MassGrain) * MassGrain

\* ------------------------------------------------------------ utils
\* massToRadius: sqrt(mass * 100 / PI), PI taken as 355/113.
\* radius^2 in PosUnit^2 is mass * 100 * PosUnit^2 / (MassUnit * PI)
\* = (mass / 64) * 15625 / PI.
massToRadius(mass) == Isqrt((((mass \div 64) * 15625) \div 355) * 113)

\* radiusToMass: r * r * PI / 100
radiusToMass(r) == RDiv(RDiv(r * r, 113) * 355, 15625) * 64

\* getDistance
getDistance(p1, p2) == Hypot(p1.x - p2.x, p1.y - p2.y)

\* <<Math.cos(a), Math.sin(a)>> for a = Math.atan2(dy, dx); atan2(0, 0) = 0
CosSin(dx, dy) ==
    LET h == Hypot(dx, dy)
    IN  IF h = 0 THEN <<DirUnit, 0>>
        ELSE <<RDiv(dx * DirUnit, h), RDiv(dy * DirUnit, h)>>

\* BASE_SPEED * Math.pow(mass, -0.439) * 4, in position units per tick.  The
\* exponent is taken as 7/16: mass^(7/16) = mass^(1/4) * mass^(1/8) * mass^(1/16),
\* computed by nested square roots in 8-bit fixed point (s1 = 256 * sqrt(mass)).
PowSpeed(mass) ==
    LET s1 == Isqrt(mass * 16)
        s2 == Isqrt(s1 * 256)
        s3 == Isqrt(s2 * 256)
        s4 == Isqrt(s3 * 256)
        q  == RDiv(RDiv(s2 * s3, 256) * s4, 256)
    IN  RDiv(BASE_SPEED * 4 * PosUnit * 256, q)

\* ------------------------------------------------------------ bounds
\* ticks explored per behaviour
MaxTicks == 2
\* input events (key and button handlers) explored per behaviour
MaxInputEvents == 1

\* ------------------------------------------------------------ state
VARIABLES
    playerCells,    \* GameState.playerCells
    bots,           \* GameState.bots
    foods,          \* GameState.foods
    viruses,        \* GameState.viruses
    ejectedMass,    \* GameState.ejectedMass
    camera,         \* GameState.camera
    score,          \* GameState.score
    gameOver,       \* GameState.gameOver
    gameStarted,    \* GameState.gameStarted
    gameEndTime,    \* GameState.gameEndTime
    playerDeadAt,   \* playerDeadAtRef.current (Null when null)
    inputState,     \* inputState.current
    lastMoveDir,    \* lastMoveDir.current
    actionRef,      \* actionRef.current
    stage,          \* App: GameStage
    outcome,        \* the scores passed to onGameOver, in call order
    clock,          \* Date.now()
    pc,             \* position inside update()
    nextId,         \* generateUUID: the next fresh identifier
    events,         \* what the current tick did so far: the intents it
                    \* consumed, the audio calls it made, named by their
                    \* call site, and whether player cells were pushed apart
    ticks,          \* update() calls so far
    inputEvents,    \* input handler calls so far
    requestRef,     \* requestRef.current: the last frame requested
    frames,         \* the requested frames neither run nor cancelled
    gameStartedProp \* the gameStarted prop of the last render of GameCanvas

world == <<playerCells, bots, foods, viruses, ejectedMass, camera, score>>
life == <<gameOver, gameStarted, gameEndTime, stage, outcome>>
input == <<inputState, actionRef, inputEvents>>
frameLoop == <<requestRef, frames, gameStartedProp>>
vars == <<playerCells, bots, foods, viruses, ejectedMass, camera, score,
          gameOver, gameStarted, gameEndTime, playerDeadAt, inputState,
          lastMoveDir, actionRef, stage, outcome, clock, pc, nextId,
          events, ticks, inputEvents, requestRef, frames, gameStartedProp>>

Null == 0 - 1

\* PlayerCell (types.ts); color is display only and left out
Cell(id, x, y, mass, vx, vy, mergeTimer, createdAt) ==
    [id |-> id, x |-> x, y |-> y, mass |-> mass, radius |-> massToRadius(mass),
     vx |-> vx, vy |-> vy, mergeTimer |-> mergeTimer, createdAt |-> createdAt]

Pos(x, y) == [x |-> x * PosUnit, y |-> y * PosUnit]

\* ------------------------------------------------------------ random inputs
\* getRandomPos results used for spawning cells
SpawnPositions == {Pos(2000, 2000), Pos(10, 2000)}
\* getRandomPos results used for pellets
FoodPositions == {Pos(2010, 2000), Pos(100, 100)}
\* <<cos, sin>> of the random fragment angles of one virus explosion
FragmentAngles ==
    { [k \in 1..6 |-> <<0 - DirUnit, 0>>],
      [k \in 1..6 |-> IF k % 2 = 1 THEN <<DirUnit, 0>> ELSE <<0, DirUnit>>] }
\* milliseconds between two update() calls
TickGaps == {16, 3000, 30000}

\* ------------------------------------------------------------ spawning
\* spawnBot
spawnBot(id, pos, mass, target, now) ==
    [id |-> id, target |-> target, deadAt |-> 0,
     cells |-> <<Cell(id + 1, pos.x, pos.y, mass, 0, 0, 0, now)>>]

\* spawnPlayer: the initial cell
spawnPlayer(id, pos, now) ==
    Cell(id, pos.x, pos.y, M(INITIAL_MASS), 0, 0, 0, now)

\* Math.ceil(a / b) for b > 0
CeilDiv(a, b) == 0 - ((0 - a) \div b)

\* results of one spawnBot call: start position, mass, target
BotSpawns ==
    { [pos |-> Pos(2000, 2000), mass |-> M(15), target |-> Pos(10, 2000)],
      [pos |-> Pos(10, 2000), mass |-> M(60), target |-> Pos(2000, 2000)] }

\* ------------------------------------------------------------ the frame loop
\* variant of cancelAnimationFrame: the frame stays pending
cancelNothing(fs, id) == fs

\* cancelAnimationFrame(id): the frame id is no longer pending; an id that is not
\* pending is ignored
cancelAnimationFrame(fs, id) == fs \ {id}

\* loop, line 982: requestRef.current = requestAnimationFrame(loop); the host
\* hands out a fresh id, and fs are the frames pending before the call
RequestFrame(fs) ==
    /\ requestRef' = requestRef + 1
    /\ frames' = fs \cup {requestRef + 1}

\* loop, lines 979-983, entered: the host runs the callback of a pending frame,
\* which calls update(); the frame is pending no more
FrameStarts ==
    /\ \E f \in frames : frames' = frames \ {f}
    /\ UNCHANGED <<requestRef, gameStartedProp>>

\* loop, lines 979-983, as one step: the callback of a pending frame whose
\* update() returns at once, then draw(), then the request of the next frame
FrameReturns ==
    /\ \E f \in frames : RequestFrame(frames \ {f})
    /\ UNCHANGED gameStartedProp

\* loop, lines 981-982: update() is through, draw() and the request of the next
\* frame end the callback
FrameEnds ==
    /\ RequestFrame(frames)
    /\ UNCHANGED gameStartedProp

\* ------------------------------------------------------------ update(): entry
\* update, lines 188-190: the tick returns at once when the match is not running.
\* The frame loop runs while the stage is PLAYING; a frame requested by the last
\* running tick can still run before the loop effect is cleaned up; no frame
\* runs in the menu.
UpdateReturnIn(gaps, limit) ==
    /\ pc = "idle"
    /\ ticks < limit
    /\ stage # "MENU"
    /\ ~gameStarted \/ gameOver
    /\ \E dt \in gaps : clock' = clock + dt
    /\ ticks' = ticks + 1
    /\ FrameReturns
    /\ UNCHANGED <<world, life, input, playerDeadAt, lastMoveDir, pc, nextId, events>>

\* the early return with the frame gaps and the number of ticks explored
UpdateReturn == UpdateReturnIn(TickGaps, MaxTicks)

\* variant of GameOverCheck: the tick goes on after reporting the end of the match
GameOverCheckNoReturn ==
    /\ pc = "idle"
    /\ ticks < MaxTicks
    /\ gameStarted /\ ~gameOver
    /\ \E dt \in TickGaps : clock' = clock + dt
    /\ clock' >= gameEndTime
    /\ gameOver' = TRUE
    /\ outcome' = Append(outcome, score)
    /\ stage' = "GAME_OVER"
    /\ ticks' = ticks + 1
    /\ events' = {"stopMusic"}
    /\ pc' = "split"
    /\ FrameStarts
    /\ UNCHANGED <<world, gameStarted, gameEndTime, input, playerDeadAt,
                   lastMoveDir, nextId>>

\* variant of GameOverCheck: the early return of line 189 does not test gameOver
GameOverCheckRepeats ==
    /\ pc = "idle"
    /\ ticks < MaxTicks
    /\ gameStarted
    /\ \E dt \in TickGaps : clock' = clock + dt
    /\ clock' >= gameEndTime
    /\ gameOver' = TRUE
    /\ outcome' = Append(outcome, score)
    /\ stage' = "GAME_OVER"
    /\ ticks' = ticks + 1
    /\ events' = {"stopMusic"}
    /\ FrameReturns
    /\ UNCHANGED <<world, gameStarted, gameEndTime, input, playerDeadAt,
                   lastMoveDir, pc, nextId>>

\* variant of GameOverCheck: the match also ends when the player has no cells
GameOverCheckLastStanding ==
    /\ pc = "idle"
    /\ ticks < MaxTicks
    /\ gameStarted /\ ~gameOver
    /\ \E dt \in TickGaps : clock' = clock + dt
    /\ clock' >= gameEndTime \/ playerCells = <<>>
    /\ gameOver' = TRUE
    /\ outcome' = Append(outcome, score)
    /\ stage' = "GAME_OVER"
    /\ ticks' = ticks + 1
    /\ events' = {"stopMusic"}
    /\ FrameReturns
    /\ UNCHANGED <<world, gameStarted, gameEndTime, input, playerDeadAt,
                   lastMoveDir, pc, nextId>>

\* update, lines 192-200, with App.handleGameOver as the onGameOver callback
GameOverCheckIn(gaps, limit) ==
    /\ pc = "idle"
    /\ ticks < limit
    /\ gameStarted /\ ~gameOver
    /\ \E dt \in gaps : clock' = clock + dt
    /\ clock' >= gameEndTime
    /\ gameOver' = TRUE
    /\ outcome' = Append(outcome, score)
    /\ stage' = "GAME_OVER"
    /\ ticks' = ticks + 1
    /\ events' = {"stopMusic"}
    /\ FrameReturns
    /\ UNCHANGED <<world, gameStarted, gameEndTime, input, playerDeadAt,
                   lastMoveDir, pc, nextId>>

\* the end of the match with the frame gaps and the number of ticks explored
GameOverCheck == GameOverCheckIn(TickGaps, MaxTicks)

\* the bots that the respawn pass replaces at time now
RespawningBots(now) ==
    { i \in 1..Len(bots) :
        /\ bots[i].cells = <<>>
        /\ bots[i].deadAt # 0
        /\ now - bots[i].deadAt > RESPAWN_DELAY_MS }

\* variant of BotRespawn: the bots without cells are taken out of the collection
BotRespawnDrops(now, r, base) ==
    SelectSeq(bots, LAMBDA bot : bot.cells # <<>>)

\* variant of BotRespawn: the dead bot gets a new cell and stays the same bot
BotRespawnRevives(now, r, base) ==
    [ i \in 1..Len(bots) |->
        IF bots[i].cells # <<>> THEN bots[i]
        ELSE IF bots[i].deadAt = 0 THEN [bots[i] EXCEPT !.deadAt = now]
        ELSE IF now - bots[i].deadAt > RESPAWN_DELAY_MS
             THEN [bots[i] EXCEPT !.cells =
                     spawnBot(base + 2 * Cardinality({k \in DOMAIN r : k < i}),
                              r[i].pos, r[i].mass, r[i].target, now).cells]
             ELSE bots[i] ]

\* update, lines 219-228: bot respawn; r maps each replaced slot to its random
\* draws, base is the first free identifier
BotRespawn(now, r, base) ==
    [ i \in 1..Len(bots) |->
        IF bots[i].cells # <<>> THEN bots[i]
        ELSE IF bots[i].deadAt = 0 THEN [bots[i] EXCEPT !.deadAt = now]
        ELSE IF now - bots[i].deadAt > RESPAWN_DELAY_MS
             THEN spawnBot(base + 2 * Cardinality({k \in DOMAIN r : k < i}),
                           r[i].pos, r[i].mass, r[i].target, now)
             ELSE bots[i] ]

\* variant of PlayerRespawns: the respawn does not wait for the delay
PlayerRespawnsAtOnce(now) ==
    /\ playerCells = <<>>
    /\ playerDeadAt # Null

\* variant of PlayerRespawns: the player is never given a new cell
PlayerRespawnsNever(now) == FALSE

\* update, lines 202-217: does the player respawn at time now
PlayerRespawns(now) ==
    /\ playerCells = <<>>
    /\ playerDeadAt # Null
    /\ ~(CeilDiv(RESPAWN_DELAY_MS - (now - playerDeadAt), 1000) > 0)

\* update, lines 192-228: a running tick that is not the last one: respawn logic
RespawnIn(gaps, limit) ==
    /\ pc = "idle"
    /\ ticks < limit
    /\ gameStarted /\ ~gameOver
    /\ \E dt \in gaps : clock' = clock + dt
    /\ clock' < gameEndTime
    /\ ticks' = ticks + 1
    /\ events' = {}
    /\ LET now == clock'
           pn  == IF PlayerRespawns(now) THEN 1 ELSE 0
       IN  /\ IF playerCells = <<>> /\ playerDeadAt = Null
              THEN /\ playerDeadAt' = now
                   /\ UNCHANGED <<playerCells, camera>>
              ELSE IF PlayerRespawns(now)
              THEN \E pos \in SpawnPositions :
                       /\ playerCells' = <<spawnPlayer(nextId, pos, now)>>
                       /\ camera' = pos
                       /\ playerDeadAt' = Null
              ELSE UNCHANGED <<playerCells, camera, playerDeadAt>>
           /\ \E r \in [RespawningBots(now) -> BotSpawns] :
                  /\ bots' = BotRespawn(now, r, nextId + pn)
                  /\ nextId' = nextId + pn + 2 * Cardinality(RespawningBots(now))
    /\ pc' = "split"
    /\ FrameStarts
    /\ UNCHANGED <<foods, viruses, ejectedMass, score, life, input, lastMoveDir>>

\* the respawn logic with the frame gaps and the number of ticks explored
Respawn == RespawnIn(TickGaps, MaxTicks)

\* ------------------------------------------------------------ update(): player
\* update, lines 234-239: the raw input vector <<moveX, moveY>>
MoveRaw ==
    << (IF inputState.right THEN 1 ELSE 0) - (IF inputState.left THEN 1 ELSE 0),
       (IF inputState.down THEN 1 ELSE 0) - (IF inputState.up THEN 1 ELSE 0) >>

\* update, line 242: len > 0
HasInput == MoveRaw # <<0, 0>>

\* update, lines 242-246: the normalised input vector, in 1/DirUnit
MoveDir ==
    IF HasInput
    THEN LET cs == CosSin(MoveRaw[1] * 10000, MoveRaw[2] * 10000)
         IN  [x |-> cs[1], y |-> cs[2]]
    ELSE [x |-> 0, y |-> 0]

\* dir * length, for a direction component in 1/DirUnit
Along(d, length) == RDiv(d * length, DirUnit)

\* the cell that splits keeps its mass
SplitKeepWhole(cell) == cell

\* update, lines 260-264: the cell that splits, after the split
SplitKeep(cell) ==
    [cell EXCEPT !.mass = cell.mass \div 2,
                 !.radius = massToRadius(cell.mass \div 2)]

\* the sibling offset by the radius the cell had before it was halved
SplitSiblingPreSplitRadius(cell, id, dir, now) ==
    [cell EXCEPT !.id = id,
                 !.x = cell.x + Along(dir.x, massToRadius(2 * cell.mass)),
                 !.y = cell.y + Along(dir.y, massToRadius(2 * cell.mass)),
                 !.vx = cell.vx + Along(dir.x, SPLIT_IMPULSE * PosUnit),
                 !.vy = cell.vy + Along(dir.y, SPLIT_IMPULSE * PosUnit),
                 !.mergeTimer = now + MERGE_COOLDOWN_MS + (cell.mass * 20) \div MassUnit,
                 !.createdAt = now]

\* the sibling with a merge timer that is a duration, not a time
SplitSiblingRelativeTimer(cell, id, dir, now) ==
    [cell EXCEPT !.id = id,
                 !.x = cell.x + Along(dir.x, cell.radius),
                 !.y = cell.y + Along(dir.y, cell.radius),
                 !.vx = cell.vx + Along(dir.x, SPLIT_IMPULSE * PosUnit),
                 !.vy = cell.vy + Along(dir.y, SPLIT_IMPULSE * PosUnit),
                 !.mergeTimer = MERGE_COOLDOWN_MS + (cell.mass * 20) \div MassUnit,
                 !.createdAt = now]

\* the sibling inheriting the merge timer of the cell it came from
SplitSiblingNoCooldown(cell, id, dir, now) ==
    [cell EXCEPT !.id = id,
                 !.x = cell.x + Along(dir.x, cell.radius),
                 !.y = cell.y + Along(dir.y, cell.radius),
                 !.vx = cell.vx + Along(dir.x, SPLIT_IMPULSE * PosUnit),
                 !.vy = cell.vy + Along(dir.y, SPLIT_IMPULSE * PosUnit),
                 !.createdAt = now]

\* update, lines 265-277: the sibling created for the split cell `cell`
\* (already halved), with identifier id
SplitSibling(cell, id, dir, now) ==
    [cell EXCEPT !.id = id,
                 !.mass = cell.mass,
                 !.radius = massToRadius(cell.mass),
                 !.x = cell.x + Along(dir.x, cell.radius),
                 !.y = cell.y + Along(dir.y, cell.radius),
                 !.vx = cell.vx + Along(dir.x, SPLIT_IMPULSE * PosUnit),
                 !.vy = cell.vy + Along(dir.y, SPLIT_IMPULSE * PosUnit),
                 !.mergeTimer = now + MERGE_COOLDOWN_MS + (cell.mass * 20) \div MassUnit,
                 !.createdAt = now]

\* the split guard without the cell cap
CanSplitNoCap(cell, currentCellCount) == cell.mass >= M(MIN_MASS_TO_SPLIT)

\* the split guard with the threshold at the initial mass
CanSplitLowThreshold(cell, currentCellCount) ==
    cell.mass >= M(INITIAL_MASS) /\ currentCellCount < MAX_CELLS

\* update, line 260: the split guard
CanSplit(cell, currentCellCount) ==
    cell.mass >= M(MIN_MASS_TO_SPLIT) /\ currentCellCount < MAX_CELLS

\* update, lines 255-283: the forEach over the cells present when the batch starts
RECURSIVE SplitLoop(_, _, _, _, _, _)
SplitLoop(cells, i, newCells, dir, now, base) ==
    IF i > Len(cells) THEN [cells |-> cells \o newCells, n |-> Len(newCells)]
    ELSE IF CanSplit(cells[i], Len(cells) + Len(newCells))
         THEN LET kept == SplitKeep(cells[i])
              IN  SplitLoop([cells EXCEPT ![i] = kept], i + 1,
                            Append(newCells,
                                   SplitSibling(kept, base + Len(newCells), dir, now)),
                            dir, now, base)
         ELSE SplitLoop(cells, i + 1, newCells, dir, now, base)

\* update, lines 232-285: input direction and the split intent
ProcessSplit ==
    /\ pc = "split"
    /\ IF playerCells = <<>>
       THEN /\ pc' = "bots"
            /\ UNCHANGED <<playerCells, lastMoveDir, actionRef, nextId, events>>
       ELSE /\ lastMoveDir' = IF HasInput THEN MoveDir ELSE lastMoveDir
            /\ IF actionRef.split
               THEN LET res == SplitLoop(playerCells, 1, <<>>, lastMoveDir', clock, nextId)
                    IN  /\ playerCells' = res.cells
                        /\ nextId' = nextId + res.n
                        /\ events' = events \cup {"consumeSplit"}
                                       \cup (IF res.n > 0 THEN {"split"} ELSE {})
                        /\ actionRef' = [actionRef EXCEPT !.split = FALSE]
               ELSE UNCHANGED <<playerCells, nextId, events, actionRef>>
            /\ pc' = "eject"
    /\ UNCHANGED <<frameLoop, bots, foods, viruses, ejectedMass, camera, score, life,
                   playerDeadAt, inputState, inputEvents, clock, ticks>>

\* the cell that ejects loses only what the blob gains
EjectKeepGain(cell) ==
    [cell EXCEPT !.mass = cell.mass - M(EJECT_MASS_GAIN),
                 !.radius = massToRadius(cell.mass - M(EJECT_MASS_GAIN))]

\* variant of EjectKeep: the cell pays the ejection twice
EjectKeepTwice(cell) ==
    [cell EXCEPT !.mass = cell.mass - 2 * M(EJECT_MASS_LOSS),
                 !.radius = massToRadius(cell.mass - 2 * M(EJECT_MASS_LOSS))]

\* update, lines 292-293: the cell that ejects, after the eject
EjectKeep(cell) ==
    [cell EXCEPT !.mass = cell.mass - M(EJECT_MASS_LOSS),
                 !.radius = massToRadius(cell.mass - M(EJECT_MASS_LOSS))]

\* update, lines 295-307: the blob emitted by `cell` (already reduced)
Ejecta(cell, id, dir, now) ==
    [id |-> id,
     x |-> cell.x + Along(dir.x, cell.radius),
     y |-> cell.y + Along(dir.y, cell.radius),
     radius |-> massToRadius(M(EJECT_MASS_GAIN)),
     vx |-> cell.vx + Along(dir.x, EJECT_IMPULSE * PosUnit),
     vy |-> cell.vy + Along(dir.y, EJECT_IMPULSE * PosUnit),
     mass |-> M(EJECT_MASS_GAIN),
     ownerId |-> cell.id,
     createdAt |-> now]

\* update, lines 290-311: the forEach of the eject intent
RECURSIVE EjectLoop(_, _, _, _, _, _)
EjectLoop(cells, i, blobs, dir, now, base) ==
    IF i > Len(cells) THEN [cells |-> cells, blobs |-> blobs]
    ELSE IF cells[i].mass >= M(MIN_MASS_TO_EJECT)
         THEN LET kept == EjectKeep(cells[i])
              IN  EjectLoop([cells EXCEPT ![i] = kept], i + 1,
                            Append(blobs, Ejecta(kept, base + Len(blobs), dir, now)),
                            dir, now, base)
         ELSE EjectLoop(cells, i + 1, blobs, dir, now, base)

\* update, lines 287-313: the eject intent
ProcessEject ==
    /\ pc = "eject"
    /\ IF actionRef.eject
       THEN LET res == EjectLoop(playerCells, 1, <<>>, lastMoveDir, clock, nextId)
            IN  /\ playerCells' = res.cells
                /\ ejectedMass' = ejectedMass \o res.blobs
                /\ nextId' = nextId + Len(res.blobs)
                /\ events' = events \cup {"consumeEject"}
                               \cup (IF res.blobs # <<>> THEN {"eject"} ELSE {})
                /\ actionRef' = [actionRef EXCEPT !.eject = FALSE]
       ELSE UNCHANGED <<playerCells, ejectedMass, nextId, events, actionRef>>
    /\ pc' = "move"
    /\ UNCHANGED <<frameLoop, bots, foods, viruses, camera, score, life, playerDeadAt,
                   inputState, inputEvents, lastMoveDir, clock, ticks>>

\* ------------------------------------------------------------ update(): movement
RECURSIVE SumOver(_, _, _)
\* sum of f[i] for i in lo..hi
SumOver(f, lo, hi) == IF lo > hi THEN 0 ELSE f[lo] + SumOver(f, lo + 1, hi)

\* the total mass of a cell collection
TotalMass(cells) == SumOver([i \in 1..Len(cells) |-> cells[i].mass], 1, Len(cells))

\* update, lines 317-328: mass-weighted centre of the player's cells.  The sums
\* are taken relative to the first cell and with whole-mass weights so that the
\* products fit; the quotient is the same weighted mean.
CenterOfMass(cells) ==
    IF cells = <<>> THEN [x |-> 0, y |-> 0]
    ELSE LET n  == Len(cells)
             w  == [i \in 1..n |-> RDiv(cells[i].mass, MassUnit)]
             tm == SumOver(w, 1, n)
             sx == SumOver([i \in 1..n |-> (cells[i].x - cells[1].x) * w[i]], 1, n)
             sy == SumOver([i \in 1..n |-> (cells[i].y - cells[1].y) * w[i]], 1, n)
         IN  IF tm > 0
             THEN [x |-> cells[1].x + RDiv(sx, tm), y |-> cells[1].y + RDiv(sy, tm)]
             ELSE [x |-> 0, y |-> 0]

\* variant of Decay: a cell of exactly the threshold mass decays too
DecayFromThreshold(cell) ==
    IF cell.mass >= M(MASS_DECAY_THRESHOLD)
    THEN [cell EXCEPT !.mass = RoundMass(cell.mass - RDiv(cell.mass, 10000)),
                      !.radius = massToRadius(RoundMass(cell.mass - RDiv(cell.mass, 10000)))]
    ELSE cell

\* update, lines 332-335 and 428-431: mass decay (MASS_DECAY_RATE = 0.9999)
Decay(cell) ==
    IF cell.mass > M(MASS_DECAY_THRESHOLD)
    THEN [cell EXCEPT !.mass = RoundMass(cell.mass - RDiv(cell.mass, 10000)),
                      !.radius = massToRadius(RoundMass(cell.mass - RDiv(cell.mass, 10000)))]
    ELSE cell

\* update, lines 367-368 and 445-446: map boundaries
ClampToMap(cell) ==
    [cell EXCEPT !.x = Max(cell.radius, Min(MAP_WIDTH - cell.radius, cell.x)),
                 !.y = Max(cell.radius, Min(MAP_HEIGHT - cell.radius, cell.y))]

\* update, lines 358-364 and 439-442: friction (FRICTION = 0.9), then Euler step
Integrate(cell) ==
    LET vx == RDiv(cell.vx * 9, 10)
        vy == RDiv(cell.vy * 9, 10)
    IN  [cell EXCEPT !.vx = vx, !.vy = vy, !.x = cell.x + vx, !.y = cell.y + vy]

\* update, lines 338-344: input acceleration (gain 0.1)
Accelerate(cell, mv) ==
    LET speed == PowSpeed(cell.mass)
    IN  [cell EXCEPT !.vx = cell.vx + RDiv(mv.x * speed, DirUnit * 10),
                     !.vy = cell.vy + RDiv(mv.y * speed, DirUnit * 10)]

\* update, lines 348-356: swarm gravity (SWARM_GRAVITY = 0.02 per 100 mass)
Gravity(cell, com, multi) ==
    IF multi /\ getDistance(cell, com) > cell.radius
    THEN LET cs == CosSin(com.x - cell.x, com.y - cell.y)
         IN  [cell EXCEPT
                !.vx = cell.vx + RDiv(cs[1] * (cell.mass \div 64) * 2,
                                      DirUnit * (MassUnit \div 64) * 100),
                !.vy = cell.vy + RDiv(cs[2] * (cell.mass \div 64) * 2,
                                      DirUnit * (MassUnit \div 64) * 100)]
    ELSE cell

\* update, lines 330-369: one player cell's movement step
MovePlayerCell(cell, com, multi, mv) ==
    ClampToMap(Integrate(Gravity(Accelerate(Decay(cell), mv), com, multi)))

\* update, lines 315-370: physics and movement of the player's cells
PlayerMove ==
    /\ pc = "move"
    /\ LET com == CenterOfMass(playerCells)
       IN  playerCells' = [i \in 1..Len(playerCells) |->
                             MovePlayerCell(playerCells[i], com,
                                            Len(playerCells) > 1, MoveDir)]
    /\ pc' = "bots"
    /\ UNCHANGED <<frameLoop, bots, foods, viruses, ejectedMass, camera, score, life,
                   playerDeadAt, input, lastMoveDir, clock, nextId, events, ticks>>

\* ------------------------------------------------------------ self-collision
\* c2 merged into c1 without its mass
MergeIntoDropsMass(c1, c2) == c1

\* lines 460-463 and 492-498: c2 merged into c1
MergeInto(c1, c2) ==
    [c1 EXCEPT !.mass = c1.mass + c2.mass,
               !.radius = massToRadius(c1.mass + c2.mass)]

\* merge eligibility that ignores the timers
CanMergeAlways(c1, c2, now) == TRUE

\* lines 460 and 492: merge eligibility
CanMerge(c1, c2, now) == now > c1.mergeTimer /\ now > c2.mergeTimer

\* lines 466-472 and 503-510: the pair <<c1, c2>> pushed apart by half the overlap each
PushApart(c1, c2) ==
    LET cs    == CosSin(c2.x - c1.x, c2.y - c1.y)
        force == (c1.radius + c2.radius - getDistance(c1, c2)) \div 2
    IN  << [c1 EXCEPT !.x = c1.x - Along(cs[1], force), !.y = c1.y - Along(cs[2], force)],
           [c2 EXCEPT !.x = c2.x + Along(cs[1], force), !.y = c2.y + Along(cs[2], force)] >>

\* cells without its j-th element: splice(j, 1)
RemoveAt(cells, j) ==
    [k \in 1..(Len(cells) - 1) |-> IF k < j THEN cells[k] ELSE cells[k + 1]]

\* the inner loop moving on after a merge as after any other pair
AfterMergeSkip(j) == j + 1

\* lines 464 and 497, `j--` before the loop's `j++`: the index the inner loop
\* examines after the cell at j was removed
AfterMerge(j) == j

\* what a self-collision pass did: the merges (each one an audio.playEat call)
\* and the push-aparts
NoCollisions == [merges |-> 0, pushes |-> 0]

\* lines 451-475 and 483-513: the inner loop, cell i against the cells j, j+1, ...
RECURSIVE CollideRow(_, _, _, _, _)
CollideRow(cells, i, j, now, did) ==
    IF j > Len(cells) THEN [cells |-> cells, did |-> did]
    ELSE IF getDistance(cells[i], cells[j]) < cells[i].radius + cells[j].radius
         THEN IF CanMerge(cells[i], cells[j], now)
              THEN CollideRow(RemoveAt([cells EXCEPT ![i] = MergeInto(cells[i], cells[j])], j),
                              i, AfterMerge(j), now,
                              [did EXCEPT !.merges = did.merges + 1])
              ELSE LET p == PushApart(cells[i], cells[j])
                   IN  CollideRow([cells EXCEPT ![i] = p[1], ![j] = p[2]],
                                  i, j + 1, now,
                                  [did EXCEPT !.pushes = did.pushes + 1])
         ELSE CollideRow(cells, i, j + 1, now, did)

\* lines 450-476 and 482-514: the outer loop over i of one actor's self-collision
RECURSIVE SelfCollide(_, _, _, _)
SelfCollide(cells, i, now, did) ==
    IF i > Len(cells) THEN [cells |-> cells, did |-> did]
    ELSE LET row == CollideRow(cells, i, i + 1, now, did)
         IN  SelfCollide(row.cells, i + 1, now, row.did)

\* update, lines 481-514: player self-collision
PlayerSelfCollision ==
    /\ pc = "selfcollide"
    /\ LET res == SelfCollide(playerCells, 1, clock, NoCollisions)
       IN  /\ playerCells' = res.cells
           /\ events' = events \cup (IF res.did.merges > 0 THEN {"merge"} ELSE {})
                                \cup (IF res.did.pushes > 0 THEN {"pushApart"} ELSE {})
    /\ pc' = "food"
    /\ UNCHANGED <<frameLoop, bots, foods, viruses, ejectedMass, camera, score, life,
                   playerDeadAt, input, lastMoveDir, clock, nextId, ticks>>

\* ------------------------------------------------------------ update(): bots
\* update, lines 378-381: the unweighted centre of a bot's cells
BotCenter(cells) ==
    LET n == Len(cells)
    IN  [x |-> cells[1].x
               + RDiv(SumOver([i \in 1..n |-> cells[i].x - cells[1].x], 1, n), n),
         y |-> cells[1].y
               + RDiv(SumOver([i \in 1..n |-> cells[i].y - cells[1].y], 1, n), n)]

\* update, line 384: the arrival test (within 100 map units of the target)
Arrived(bot) == getDistance(BotCenter(bot.cells), bot.target) < 100 * PosUnit

\* update, lines 386-395: the nearest pellet of a sample (given by its indices)
RECURSIVE NearestOf(_, _, _)
NearestOf(center, sample, best) ==
    IF sample = {} THEN best
    ELSE LET k == CHOOSE k \in sample : \A l \in sample : k <= l
         IN  NearestOf(center, sample \ {k},
                       IF best = 0
                          \/ getDistance(center, foods[k]) < getDistance(center, foods[best])
                       THEN k ELSE best)

\* the samples of pellet indices explored: every pellet, or the first one only
FoodSamples == IF foods = <<>> THEN {{}} ELSE {DOMAIN foods, {1}}

\* update, lines 384-402: the targets the bot may hold after the retarget step;
\* Math.random() < 0.02 may or may not fire, arrival forces the retarget
Retargets(bot) ==
    LET center == BotCenter(bot.cells)
        picked == { NearestOf(center, smp, 0) : smp \in FoodSamples }
        fresh  == IF foods = <<>> THEN SpawnPositions
                  ELSE { [x |-> foods[k].x, y |-> foods[k].y] : k \in picked }
    IN  IF Arrived(bot) THEN fresh ELSE fresh \cup {bot.target}

\* update, lines 405-413: the nearest player cell that threatens the bot, as an
\* index into playerCells (0: none)
RECURSIVE Threat(_, _, _, _, _)
Threat(center, bm, n, k, best) ==
    IF k > Len(playerCells) THEN best[1]
    ELSE LET d == getDistance(center, playerCells[k])
         IN  IF d < best[2] /\ (playerCells[k].mass \div 64) * n * 10 > (bm \div 64) * 12
             THEN Threat(center, bm, n, k + 1, <<k, d>>)
             ELSE Threat(center, bm, n, k + 1, best)

\* update, lines 415-423: the point the bot steers to
SteerPoint(bot, target) ==
    LET center == BotCenter(bot.cells)
        t == Threat(center, TotalMass(bot.cells), Len(bot.cells), 1, <<0, 500 * PosUnit>>)
    IN  IF t = 0 THEN target
        ELSE LET cs == CosSin(center.x - playerCells[t].x, center.y - playerCells[t].y)
             IN  [x |-> center.x + Along(cs[1], 1000 * PosUnit),
                  y |-> center.y + Along(cs[2], 1000 * PosUnit)]

\* update, lines 426-447: one bot cell's movement step (BOT_SPEED_FACTOR = 0.6,
\* gain 0.1)
MoveBotCell(cell, to) ==
    LET c     == Decay(cell)
        speed == PowSpeed(c.mass)
        cs    == CosSin(to.x - c.x, to.y - c.y)
    IN  ClampToMap(Integrate(
            [c EXCEPT !.vx = c.vx + RDiv(cs[1] * speed * 6, DirUnit * 100),
                      !.vy = c.vy + RDiv(cs[2] * speed * 6, DirUnit * 100)]))

\* update, lines 373-477: one bot's step, given the target it holds after the
\* retarget step
BotStep(bot, target, now) ==
    IF bot.cells = <<>> THEN bot
    ELSE LET to    == SteerPoint(bot, target)
             moved == [i \in 1..Len(bot.cells) |-> MoveBotCell(bot.cells[i], to)]
         IN  [bot EXCEPT !.target = target,
                         !.cells = SelfCollide(moved, 1, now, NoCollisions).cells]

\* update, line 375: the bots that have cells
LiveBots == {i \in DOMAIN bots : bots[i].cells # <<>>}

\* update, lines 372-477: bot AI, movement and bot self-collision
BotLogic ==
    /\ pc = "bots"
    /\ \E tg \in [ LiveBots -> UNION { Retargets(bots[i]) : i \in LiveBots } ] :
          /\ \A i \in LiveBots : tg[i] \in Retargets(bots[i])
          /\ bots' = [i \in DOMAIN bots |->
                        IF bots[i].cells = <<>> THEN bots[i]
                        ELSE BotStep(bots[i], tg[i], clock)]
    /\ pc' = "selfcollide"
    /\ UNCHANGED <<frameLoop, playerCells, foods, viruses, ejectedMass, camera, score, life,
                   playerDeadAt, input, lastMoveDir, clock, nextId, events, ticks>>

\* ------------------------------------------------------------ update(): food
\* pellets kept by the match (the literal 800 of lines 117 and 557, scaled down)
FOOD_COUNT == 3

\* update, lines 530-537: does the eater cell contain the pellet's centre
Contains(cell, food) ==
    LET dx == cell.x - food.x
        dy == cell.y - food.y
    IN  /\ ~(Abs(dx) > cell.radius \/ Abs(dy) > cell.radius)
        /\ dx * dx + dy * dy < cell.radius * cell.radius

\* the eater gaining two per pellet
GrowTwo(cell) ==
    [cell EXCEPT !.mass = cell.mass + M(2), !.radius = massToRadius(cell.mass + M(2))]

\* the eater gaining the pellet's mass with its radius left as it was
GrowKeepsRadius(cell) ==
    [cell EXCEPT !.mass = cell.mass + M(1)]

\* update, lines 538-539: the eater after one pellet
Grow(cell) ==
    [cell EXCEPT !.mass = cell.mass + M(1), !.radius = massToRadius(cell.mass + M(1))]

\* update, lines 521-523: allEaters, player cells first, then each bot's cells;
\* an eater is <<0, k>> (player cell k) or <<b, k>> (cell k of bot b)
RECURSIVE BotEaters(_, _)
BotEaters(bs, b) ==
    IF b > Len(bs) THEN <<>>
    ELSE [k \in 1..Len(bs[b].cells) |-> <<b, k>>] \o BotEaters(bs, b + 1)

AllEaters(pcs, bs) == [k \in 1..Len(pcs) |-> <<0, k>>] \o BotEaters(bs, 1)

EaterCell(pcs, bs, e) == IF e[1] = 0 THEN pcs[e[2]] ELSE bs[e[1]].cells[e[2]]

\* update, lines 529-547: index in eaters of the first eater that contains the
\* pellet (0: none)
RECURSIVE FirstEater(_, _, _, _, _)
FirstEater(pcs, bs, eaters, n, food) ==
    IF n > Len(eaters) THEN 0
    ELSE IF Contains(EaterCell(pcs, bs, eaters[n]), food) THEN n
    ELSE FirstEater(pcs, bs, eaters, n + 1, food)

\* popping the last element without moving it into the place of element i
SwapPopLast(seq, i) == SubSeq(seq, 1, Len(seq) - 1)

\* update, lines 550-551: swap with the last element and pop
SwapPop(seq, i) ==
    IF i = Len(seq) THEN SubSeq(seq, 1, Len(seq) - 1)
    ELSE SubSeq([seq EXCEPT ![i] = seq[Len(seq)]], 1, Len(seq) - 1)

\* update, lines 525-553: the pass over the pellets, last to first
RECURSIVE FoodLoop(_, _, _, _, _, _, _)
FoodLoop(pcs, bs, fs, eaters, i, sc, eatenCount) ==
    IF i < 1
    THEN [pcs |-> pcs, bs |-> bs, fs |-> fs, sc |-> sc, eatenCount |-> eatenCount]
    ELSE LET n == FirstEater(pcs, bs, eaters, 1, fs[i])
         IN  IF n = 0 THEN FoodLoop(pcs, bs, fs, eaters, i - 1, sc, eatenCount)
             ELSE LET e == eaters[n]
                  IN  IF e[1] = 0
                      THEN FoodLoop([pcs EXCEPT ![e[2]] = Grow(pcs[e[2]])], bs,
                                    SwapPop(fs, i), eaters, i - 1, sc + 1, eatenCount + 1)
                      ELSE FoodLoop(pcs,
                                    [bs EXCEPT ![e[1]].cells[e[2]] = Grow(bs[e[1]].cells[e[2]])],
                                    SwapPop(fs, i), eaters, i - 1, sc, eatenCount)

\* the respawn loop stopping one pellet short
MissingOneShort(fs) ==
    IF Len(fs) < FOOD_COUNT - 1 THEN FOOD_COUNT - 1 - Len(fs) ELSE 0

\* update, lines 557-565: the pellets the respawn loop pushes
Missing(fs) == IF Len(fs) < FOOD_COUNT THEN FOOD_COUNT - Len(fs) ELSE 0

\* variant of FoodStage: the virus stage follows the pellets, the cross-actor
\* stage is left out
FoodStageThenVirus ==
    /\ pc = "food"
    /\ LET res == FoodLoop(playerCells, bots, foods, AllEaters(playerCells, bots),
                           Len(foods), score, 0)
           missing == Missing(res.fs)
       IN  /\ playerCells' = res.pcs
           /\ bots' = res.bs
           /\ score' = res.sc
           /\ events' = IF res.eatenCount > 0 THEN events \cup {"eatFood"} ELSE events
           /\ \E ps \in [1..missing -> FoodPositions] :
                  foods' = res.fs \o [k \in 1..missing |->
                                        [id |-> nextId + k - 1, x |-> ps[k].x, y |-> ps[k].y]]
           /\ nextId' = nextId + missing
    /\ pc' = "virus"
    /\ UNCHANGED <<frameLoop, viruses, ejectedMass, camera, life, playerDeadAt, input,
                   lastMoveDir, clock, ticks>>

\* update, lines 516-565: food consumption, then food respawn
FoodStage ==
    /\ pc = "food"
    /\ LET res == FoodLoop(playerCells, bots, foods, AllEaters(playerCells, bots),
                           Len(foods), score, 0)
           missing == Missing(res.fs)
       IN  /\ playerCells' = res.pcs
           /\ bots' = res.bs
           /\ score' = res.sc
           /\ events' = IF res.eatenCount > 0 THEN events \cup {"eatFood"} ELSE events
           /\ \E ps \in [1..missing -> FoodPositions] :
                  foods' = res.fs \o [k \in 1..missing |->
                                        [id |-> nextId + k - 1, x |-> ps[k].x, y |-> ps[k].y]]
           /\ nextId' = nextId + missing
    /\ pc' = "cross"
    /\ UNCHANGED <<frameLoop, viruses, ejectedMass, camera, life, playerDeadAt, input,
                   lastMoveDir, clock, ticks>>

\* ------------------------------------------------------------ update(): player vs bot
\* variant of Eats: any cell that contains the victim's centre eats it
EatsAnySize(eater, victim) == getDistance(eater, victim) < eater.radius

\* update, lines 584 and 594: eater containing the victim's centre and heavier
\* than 1.25 times the victim
Eats(eater, victim) ==
    /\ getDistance(eater, victim) < eater.radius
    /\ eater.mass * 100 > victim.mass * 125

\* update, lines 585-586 and 595-596: the eater after the meal
Absorb(eater, victim) ==
    [eater EXCEPT !.mass = eater.mass + victim.mass,
                  !.radius = massToRadius(eater.mass + victim.mass)]

\* update, lines 573-603: bots last to first, their cells last to first, against
\* the player cells last to first
RECURSIVE CrossLoop(_, _, _, _, _, _, _)
CrossLoop(pcs, bs, i, j, k, sc, eats) ==
    IF i < 1 THEN [pcs |-> pcs, bs |-> bs, sc |-> sc, eats |-> eats]
    ELSE IF j < 1
         THEN CrossLoop(pcs, bs, i - 1, IF i > 1 THEN Len(bs[i - 1].cells) ELSE 0,
                        Len(pcs), sc, eats)
    ELSE IF k < 1 THEN CrossLoop(pcs, bs, i, j - 1, Len(pcs), sc, eats)
    ELSE LET pCell == pcs[k]
             bCell == bs[i].cells[j]
         IN  IF Eats(pCell, bCell)
             THEN CrossLoop([pcs EXCEPT ![k] = Absorb(pCell, bCell)],
                            [bs EXCEPT ![i].cells = RemoveAt(bs[i].cells, j)],
                            i, j - 1, Len(pcs), sc + bCell.mass \div MassUnit, eats + 1)
             ELSE IF Eats(bCell, pCell)
             THEN CrossLoop(RemoveAt(pcs, k),
                            [bs EXCEPT ![i].cells[j] = Absorb(bCell, pCell)],
                            i, j, k - 1, sc, eats)
             ELSE CrossLoop(pcs, bs, i, j, k - 1, sc, eats)

\* update, lines 567-603: player vs bot interactions
CrossActor ==
    /\ pc = "cross"
    /\ LET res == CrossLoop(playerCells, bots, Len(bots),
                            IF bots = <<>> THEN 0 ELSE Len(bots[Len(bots)].cells),
                            Len(playerCells), score, 0)
       IN  /\ playerCells' = res.pcs
           /\ bots' = res.bs
           /\ score' = res.sc
           /\ events' = IF res.eats > 0 THEN events \cup {"eatBot"} ELSE events
    /\ pc' = "virus"
    /\ UNCHANGED <<frameLoop, foods, viruses, ejectedMass, camera, life, playerDeadAt, input,
                   lastMoveDir, clock, nextId, ticks>>

\* ------------------------------------------------------------ update(): viruses
\* update, lines 615 and 657: heavier than VIRUS_MASS * 1.1
Triggers(cell) == cell.mass * 10 > M(VIRUS_MASS) * 11

\* update, lines 612-615: the player cell that explodes on the virus, searched
\* last to first (0: none)
RECURSIVE ExplodingCell(_, _, _)
ExplodingCell(pcs, j, virus) ==
    IF j < 1 THEN 0
    ELSE IF getDistance(pcs[j], virus) < pcs[j].radius /\ Triggers(pcs[j]) THEN j
    ELSE ExplodingCell(pcs, j - 1, virus)

\* update, lines 623-624: fragments created by an explosion
Pieces(cellCount) == Min(MAX_CELLS - cellCount, 6)

\* variant of ExplodeKeep: the explosion awards no bonus mass
ExplodeKeepNoBonus(cell, pieces) ==
    LET mass == IF pieces > 0 THEN RoundMass(RDiv(cell.mass, pieces + 1)) ELSE cell.mass
    IN  [cell EXCEPT !.mass = mass, !.radius = massToRadius(mass)]

\* update, lines 620-631: the exploding cell after the explosion
ExplodeKeep(cell, pieces) ==
    LET bonus == cell.mass + M(VIRUS_BONUS_MASS)
        mass  == IF pieces > 0 THEN RoundMass(RDiv(bonus, pieces + 1)) ELSE bonus
    IN  [cell EXCEPT !.mass = mass, !.radius = massToRadius(mass)]

\* update, lines 633-645: fragment of the exploded cell `cell` (already reduced)
\* launched at the angle with <<cos, sin>> = cs
Fragment(cell, id, cs, now) ==
    [cell EXCEPT !.id = id,
                 !.x = cell.x + Along(cs[1], cell.radius),
                 !.y = cell.y + Along(cs[2], cell.radius),
                 !.vx = Along(cs[1], (SPLIT_IMPULSE * PosUnit * 3) \div 2),
                 !.vy = Along(cs[2], (SPLIT_IMPULSE * PosUnit * 3) \div 2),
                 !.mergeTimer = now + MERGE_COOLDOWN_MS + 5000,
                 !.createdAt = now]

\* update, lines 615-648: the player's cells after cell j explodes
Explode(pcs, j, ang, base, now) ==
    LET pieces == Pieces(Len(pcs))
        kept   == ExplodeKeep(pcs[j], pieces)
    IN  [pcs EXCEPT ![j] = kept]
        \o [k \in 1..Max(pieces, 0) |-> Fragment(kept, base + k - 1, ang[k], now)]

\* variant of BotVirus: the bot cell keeps the bonus whole
BotVirusNoHalving(cell, virus) ==
    IF getDistance(cell, virus) < cell.radius /\ Triggers(cell)
    THEN [cell EXCEPT !.mass = cell.mass + M(VIRUS_BONUS_MASS),
                      !.radius = massToRadius(cell.mass + M(VIRUS_BONUS_MASS))]
    ELSE cell

\* update, lines 657-662: a bot cell on the virus
BotVirus(cell, virus) ==
    IF getDistance(cell, virus) < cell.radius /\ Triggers(cell)
    THEN [cell EXCEPT !.mass = (cell.mass + M(VIRUS_BONUS_MASS)) \div 2,
                      !.radius = massToRadius((cell.mass + M(VIRUS_BONUS_MASS)) \div 2)]
    ELSE cell

\* variant of BotsVirus: a bot cell on the virus leaves a second cell of the
\* same mass behind
BotsVirusFragments(bs, virus) ==
    [b \in 1..Len(bs) |->
        [bs[b] EXCEPT !.cells =
            [k \in 1..Len(bs[b].cells) |-> BotVirus(bs[b].cells[k], virus)]
            \o IF \E k \in 1..Len(bs[b].cells) :
                      BotVirus(bs[b].cells[k], virus) # bs[b].cells[k]
               THEN <<BotVirus(bs[b].cells[1], virus)>>
               ELSE <<>>]]

\* update, lines 655-664: every cell of every bot against the virus
BotsVirus(bs, virus) ==
    [b \in 1..Len(bs) |->
        [bs[b] EXCEPT !.cells = [k \in 1..Len(bs[b].cells) |->
                                    BotVirus(bs[b].cells[k], virus)]]]

\* update, lines 607-671: the pass over the viruses, last to first
RECURSIVE VirusLoop(_, _, _, _, _, _, _, _)
VirusLoop(pcs, bs, vs, i, ang, base, now, explosions) ==
    IF i < 1
    THEN [pcs |-> pcs, bs |-> bs, vs |-> vs, base |-> base, explosions |-> explosions]
    ELSE LET j == ExplodingCell(pcs, Len(pcs), vs[i])
         IN  IF j > 0
             THEN VirusLoop(Explode(pcs, j, ang, base, now), bs, SwapPop(vs, i), i - 1,
                            ang, base + Max(Pieces(Len(pcs)), 0), now, explosions + 1)
             ELSE IF \E b \in 1..Len(bs) : \E k \in 1..Len(bs[b].cells) :
                         /\ getDistance(bs[b].cells[k], vs[i]) < bs[b].cells[k].radius
                         /\ Triggers(bs[b].cells[k])
             THEN VirusLoop(pcs, BotsVirus(bs, vs[i]), SwapPop(vs, i), i - 1,
                            ang, base, now, explosions)
             ELSE VirusLoop(pcs, bs, vs, i - 1, ang, base, now, explosions)

\* one of the fragment angle draws
SomeAngles == CHOOSE a \in FragmentAngles : TRUE

\* update, lines 606-671: virus collision
VirusStage ==
    /\ pc = "virus"
    /\ LET probe == VirusLoop(playerCells, bots, viruses, Len(viruses), SomeAngles,
                              nextId, clock, 0)
       IN  \E ang \in IF probe.explosions > 0 THEN FragmentAngles ELSE {SomeAngles} :
              LET res == VirusLoop(playerCells, bots, viruses, Len(viruses), ang,
                                   nextId, clock, 0)
              IN  /\ playerCells' = res.pcs
                  /\ bots' = res.bs
                  /\ viruses' = res.vs
                  /\ nextId' = res.base
                  /\ events' = IF res.explosions > 0 THEN events \cup {"explode"}
                                 ELSE events
    /\ pc' = "ejected"
    /\ UNCHANGED <<frameLoop, foods, ejectedMass, camera, score, life, playerDeadAt, input,
                   lastMoveDir, clock, ticks>>

\* ------------------------------------------------------------ update(): ejected mass
\* blobs kept at the end of a tick (the literal 300 of lines 731-732, scaled down)
EJECTED_CAP == 2

\* update, lines 679-687: bounce on the map boundary, then move and damp (0.9)
MoveBlob(blob) ==
    LET vx1 == IF blob.x <= 0 THEN 0 - blob.vx ELSE blob.vx
        x1  == IF blob.x <= 0 THEN 0 ELSE blob.x
        vx2 == IF x1 >= MAP_WIDTH THEN 0 - vx1 ELSE vx1
        x2  == IF x1 >= MAP_WIDTH THEN MAP_WIDTH ELSE x1
        vy1 == IF blob.y <= 0 THEN 0 - blob.vy ELSE blob.vy
        y1  == IF blob.y <= 0 THEN 0 ELSE blob.y
        vy2 == IF y1 >= MAP_HEIGHT THEN 0 - vy1 ELSE vy1
        y2  == IF y1 >= MAP_HEIGHT THEN MAP_HEIGHT ELSE y1
    IN  [blob EXCEPT !.x = x2 + vx2, !.y = y2 + vy2,
                     !.vx = RDiv(vx2 * 9, 10), !.vy = RDiv(vy2 * 9, 10)]

\* variant of PlayerConsumer: the owner is not held off
RECURSIVE PlayerConsumerNoGrace(_, _, _, _)
PlayerConsumerNoGrace(pcs, k, blob, now) ==
    IF k > Len(pcs) THEN 0
    ELSE IF /\ getDistance(pcs[k], blob) < pcs[k].radius
            /\ pcs[k].mass * 100 > blob.mass * 125
         THEN k
         ELSE PlayerConsumerNoGrace(pcs, k + 1, blob, now)

\* update, lines 691-704: the first player cell that consumes the blob (0: none)
RECURSIVE PlayerConsumer(_, _, _, _)
PlayerConsumer(pcs, k, blob, now) ==
    IF k > Len(pcs) THEN 0
    ELSE IF /\ getDistance(pcs[k], blob) < pcs[k].radius
            /\ ~(blob.ownerId = pcs[k].id /\ now - blob.createdAt < 500)
            /\ pcs[k].mass * 100 > blob.mass * 125
         THEN k
         ELSE PlayerConsumer(pcs, k + 1, blob, now)

\* update, lines 708-720: the first bot cell, in bot order, that consumes the
\* blob, as <<b, k>> (<<0, 0>>: none)
RECURSIVE BotConsumer(_, _, _, _)
BotConsumer(bs, b, k, blob) ==
    IF b > Len(bs) THEN <<0, 0>>
    ELSE IF k > Len(bs[b].cells) THEN BotConsumer(bs, b + 1, 1, blob)
    ELSE IF /\ getDistance(bs[b].cells[k], blob) < bs[b].cells[k].radius
            /\ bs[b].cells[k].mass * 100 > blob.mass * 125
         THEN <<b, k>>
         ELSE BotConsumer(bs, b, k + 1, blob)

\* update, lines 675-727: the pass over the blobs, last to first
RECURSIVE BlobLoop(_, _, _, _, _, _)
BlobLoop(pcs, bs, es, i, now, massConsumed) ==
    IF i < 1 THEN [pcs |-> pcs, bs |-> bs, es |-> es, massConsumed |-> massConsumed]
    ELSE LET blob  == MoveBlob(es[i])
             moved == [es EXCEPT ![i] = blob]
             p     == PlayerConsumer(pcs, 1, blob, now)
             b     == BotConsumer(bs, 1, 1, blob)
         IN  IF p > 0
             THEN BlobLoop([pcs EXCEPT ![p] = Absorb(pcs[p], blob)], bs,
                           SwapPop(moved, i), i - 1, now, TRUE)
             ELSE IF b # <<0, 0>>
             THEN BlobLoop(pcs,
                           [bs EXCEPT ![b[1]].cells[b[2]] = Absorb(bs[b[1]].cells[b[2]], blob)],
                           SwapPop(moved, i), i - 1, now, massConsumed)
             ELSE BlobLoop(pcs, bs, moved, i - 1, now, massConsumed)

\* the collection left as long as it is
CapBlobsOff(es) == es

\* update, lines 731-733: splice(0, length - cap)
CapBlobs(es) ==
    IF Len(es) > EJECTED_CAP THEN SubSeq(es, Len(es) - EJECTED_CAP + 1, Len(es)) ELSE es

\* variant of EjectedStage: a blob consumed by the player scores
EjectedStageScores ==
    /\ pc = "ejected"
    /\ LET res == BlobLoop(playerCells, bots, ejectedMass, Len(ejectedMass), clock, FALSE)
       IN  /\ playerCells' = res.pcs
           /\ bots' = res.bs
           /\ ejectedMass' = CapBlobs(res.es)
           /\ score' = IF res.massConsumed THEN score + 1 ELSE score
           /\ events' = IF res.massConsumed THEN events \cup {"eatBlob"} ELSE events
    /\ pc' = "camera"
    /\ UNCHANGED <<frameLoop, foods, viruses, camera, life, playerDeadAt, input,
                   lastMoveDir, clock, nextId, ticks>>

\* update, lines 673-733: ejected mass logic
EjectedStage ==
    /\ pc = "ejected"
    /\ LET res == BlobLoop(playerCells, bots, ejectedMass, Len(ejectedMass), clock, FALSE)
       IN  /\ playerCells' = res.pcs
           /\ bots' = res.bs
           /\ ejectedMass' = CapBlobs(res.es)
           /\ events' = IF res.massConsumed THEN events \cup {"eatBlob"} ELSE events
    /\ pc' = "camera"
    /\ UNCHANGED <<frameLoop, foods, viruses, camera, score, life, playerDeadAt, input,
                   lastMoveDir, clock, nextId, ticks>>

\* ------------------------------------------------------------ update(): camera
\* update, lines 743-752: the camera follows the unweighted centre of the
\* player's cells (gain 0.1); the zoom scale only serves rendering and is left out
FollowCamera(cam, cells) ==
    IF cells = <<>> THEN cam
    ELSE LET c == BotCenter(cells)
         IN  [x |-> cam.x + RDiv(c.x - cam.x, 10), y |-> cam.y + RDiv(c.y - cam.y, 10)]

\* update, lines 736-810: camera update; the tick ends
UpdateCamera ==
    /\ pc = "camera"
    /\ camera' = FollowCamera(camera, playerCells)
    /\ pc' = "idle"
    /\ FrameEnds
    /\ UNCHANGED <<playerCells, bots, foods, viruses, ejectedMass, score, life,
                   playerDeadAt, input, lastMoveDir, clock, nextId, events, ticks>>

\* ------------------------------------------------------------ input handlers
Keys == {"up", "down", "left", "right"}

\* GameCanvas.handleKeyDown
HandleKeyDown(key) ==
    /\ pc = "idle"
    /\ inputEvents < MaxInputEvents
    /\ ~inputState[key]
    /\ inputState' = [inputState EXCEPT ![key] = TRUE]
    /\ inputEvents' = inputEvents + 1
    /\ UNCHANGED <<frameLoop, world, life, playerDeadAt, lastMoveDir, actionRef, clock, pc,
                   nextId, events, ticks>>

\* GameCanvas.handleKeyUp
HandleKeyUp(key) ==
    /\ pc = "idle"
    /\ inputEvents < MaxInputEvents
    /\ inputState[key]
    /\ inputState' = [inputState EXCEPT ![key] = FALSE]
    /\ inputEvents' = inputEvents + 1
    /\ UNCHANGED <<frameLoop, world, life, playerDeadAt, lastMoveDir, actionRef, clock, pc,
                   nextId, events, ticks>>

\* App.triggerSplit, and App.handleKeyDown for KeyD: the key is ignored and the
\* button is not rendered unless the stage is PLAYING
TriggerSplit ==
    /\ pc = "idle"
    /\ inputEvents < MaxInputEvents
    /\ stage = "PLAYING"
    /\ ~actionRef.split
    /\ actionRef' = [actionRef EXCEPT !.split = TRUE]
    /\ inputEvents' = inputEvents + 1
    /\ UNCHANGED <<frameLoop, world, life, playerDeadAt, lastMoveDir, inputState, clock, pc,
                   nextId, events, ticks>>

\* App.triggerEject, and App.handleKeyDown for KeyA, under the same condition
TriggerEject ==
    /\ pc = "idle"
    /\ inputEvents < MaxInputEvents
    /\ stage = "PLAYING"
    /\ ~actionRef.eject
    /\ actionRef' = [actionRef EXCEPT !.eject = TRUE]
    /\ inputEvents' = inputEvents + 1
    /\ UNCHANGED <<frameLoop, world, life, playerDeadAt, lastMoveDir, inputState, clock, pc,
                   nextId, events, ticks>>

\* ------------------------------------------------------------ initial states
\* bot controllers of a match (BOT_COUNT of constants.ts, scaled down)
BOT_COUNT == 2

\* Date.now() when the behaviour starts
Clock0 == 1000 * 1000

NoKeys == [up |-> FALSE, down |-> FALSE, left |-> FALSE, right |-> FALSE]
NoAction == [split |-> FALSE, eject |-> FALSE]

\* a cell at rest at map position <<x, y>> (map units) of whole mass m, created a
\* minute before the behaviour starts
RestCell(id, x, y, m, mergeTimer) ==
    Cell(id, x * PosUnit, y * PosUnit, M(m), 0, 0, mergeTimer, Clock0 - 60000)

\* a bot with one cell
OneCellBot(id, x, y, m, target) ==
    [id |-> id, target |-> target, deadAt |-> 0,
     cells |-> <<RestCell(id + 1, x, y, m, 0)>>]

\* an ejected blob at rest at map position <<x, y>>
RestBlob(id, x, y, ownerId, createdAt) ==
    [id |-> id, x |-> x * PosUnit, y |-> y * PosUnit,
     radius |-> massToRadius(M(EJECT_MASS_GAIN)), vx |-> 0, vy |-> 0,
     mass |-> M(EJECT_MASS_GAIN), ownerId |-> ownerId, createdAt |-> createdAt]

\* the bots beyond the first: small bots in a far corner
FillerBot(i) == OneCellBot(50 + 2 * i, 3500, 300 * i, 20, Pos(100, 100))

\* The match is explored from states in the middle of a running match: the
\* player has grown (by eating), split or died before.  Each record gives the
\* player's cells, the first two bots, the ejected blobs, the first two pellets,
\* the viruses, the death timestamp, the pending intents and the time left of
\* such a state.
Snapshots ==
    { \* one cell heavy enough to split or eject, two pellets inside it, a small bot
      \* inside it
      [pcs |-> <<RestCell(1, 2000, 2000, 40, 0)>>,
       bot |-> OneCellBot(50, 2005, 2000, 15, Pos(2600, 2000)),
       bot2 |-> FillerBot(2), blobs |-> <<>>,
       food |-> Pos(2010, 2000), food2 |-> Pos(1990, 2000), viruses |-> <<Pos(1000, 1000)>>,
       deadAt |-> Null, action |-> NoAction, keys |-> NoKeys, endIn |-> 40000],
      \* one cell of 40 with two pellets inside it and a bot of 33 inside it: too
      \* heavy to be eaten by 40, not by 42
      [pcs |-> <<RestCell(1, 2000, 2000, 40, 0)>>,
       bot |-> OneCellBot(50, 2005, 2000, 33, Pos(2600, 2000)),
       bot2 |-> FillerBot(2), blobs |-> <<>>,
       food |-> Pos(2010, 2000), food2 |-> Pos(1990, 2000), viruses |-> <<>>,
       deadAt |-> Null, action |-> NoAction, keys |-> NoKeys, endIn |-> 40000],
      \* thirteen cells, the twelfth one light, the last one heavy and on a virus
      [pcs |-> [k \in 1..13 |->
                  IF k < 12 THEN RestCell(k, 1000 + 100 * k, 2000, 40, Clock0 + 20000)
                  ELSE IF k = 12 THEN RestCell(k, 2200, 2000, 20, Clock0 + 20000)
                  ELSE RestCell(k, 1000, 1000, 120, Clock0 + 20000)],
       bot |-> OneCellBot(50, 3000, 3000, 60, Pos(2010, 2000)),
       bot2 |-> FillerBot(2), blobs |-> <<>>,
       food |-> Pos(100, 100), food2 |-> Pos(100, 100), viruses |-> <<Pos(1000, 1000), Pos(3000, 3020)>>,
       deadAt |-> Null, action |-> NoAction, keys |-> NoKeys, endIn |-> 40000],
      \* three overlapping cells at the left wall, two still cooling down; the left
      \* key is held and a split is requested
      [pcs |-> <<RestCell(1, 36, 2000, 40, Clock0 + 20000),
                 RestCell(2, 56, 2000, 40, Clock0 + 20000),
                 RestCell(3, 50, 2030, 20, 0)>>,
       bot |-> OneCellBot(50, 70, 2000, 60, Pos(2010, 2000)),
       bot2 |-> FillerBot(2), blobs |-> <<>>,
       food |-> Pos(2010, 2000), food2 |-> Pos(100, 100), viruses |-> <<>>,
       deadAt |-> Null, action |-> [split |-> TRUE, eject |-> FALSE],
       keys |-> [NoKeys EXCEPT !.left = TRUE], endIn |-> 40000],
      \* the player and the bot died 2968 ms ago
      [pcs |-> <<>>,
       bot |-> [id |-> 50, target |-> Pos(2010, 2000), deadAt |-> Clock0 - 2968,
                cells |-> <<>>],
       bot2 |-> FillerBot(2), blobs |-> <<>>,
       food |-> Pos(2010, 2000), food2 |-> Pos(100, 100), viruses |-> <<Pos(1000, 1000)>>,
       deadAt |-> Clock0 - 2968, action |-> [split |-> TRUE, eject |-> FALSE],
       keys |-> NoKeys, endIn |-> 20000],
      \* two overlapping cells whose merge timers have elapsed; the first bot died
      \* 2984 ms ago, the second one 5000 ms ago
      [pcs |-> <<RestCell(1, 2000, 2000, 40, Clock0 - 5000),
                 RestCell(2, 2030, 2000, 30, Clock0 - 5000)>>,
       bot |-> [id |-> 50, target |-> Pos(2010, 2000), deadAt |-> Clock0 - 2984,
                cells |-> <<>>],
       bot2 |-> [id |-> 54, target |-> Pos(100, 100), deadAt |-> Clock0 - 5000,
                 cells |-> <<>>],
       blobs |-> <<>>,
       food |-> Pos(100, 100), food2 |-> Pos(100, 100), viruses |-> <<>>,
       deadAt |-> Null, action |-> NoAction, keys |-> NoKeys, endIn |-> 40000],
      \* one cell heavy enough to eject, just off the left wall; the left key is
      \* held and an eject is requested
      [pcs |-> <<RestCell(1, 36, 2000, 40, 0)>>,
       bot |-> OneCellBot(50, 3000, 3000, 20, Pos(3000, 3000)),
       bot2 |-> FillerBot(2), blobs |-> <<>>,
       food |-> Pos(100, 100), food2 |-> Pos(100, 100), viruses |-> <<>>,
       deadAt |-> Null, action |-> [split |-> FALSE, eject |-> TRUE],
       keys |-> [NoKeys EXCEPT !.left = TRUE], endIn |-> 20000],
      \* two heavy bots on one virus, the player far from them
      [pcs |-> <<RestCell(1, 2000, 2000, 20, 0)>>,
       bot |-> OneCellBot(50, 3000, 3000, 120, Pos(3000, 3000)),
       bot2 |-> OneCellBot(54, 3010, 3000, 130, Pos(3000, 3000)), blobs |-> <<>>,
       food |-> Pos(100, 100), food2 |-> Pos(100, 100), viruses |-> <<Pos(3000, 3010)>>,
       deadAt |-> Null, action |-> NoAction, keys |-> NoKeys, endIn |-> 40000],
      \* one cell with a blob it ejected 3 s ago inside it and a later blob far
      \* away; an eject is requested
      [pcs |-> <<RestCell(1, 2000, 2000, 60, 0)>>,
       bot |-> OneCellBot(50, 3000, 3000, 20, Pos(3000, 3000)),
       bot2 |-> FillerBot(2),
       blobs |-> <<RestBlob(20, 2000, 2000, 1, Clock0 - 3000),
                   RestBlob(21, 500, 500, 1, Clock0 - 2000)>>,
       food |-> Pos(100, 100), food2 |-> Pos(100, 100), viruses |-> <<>>,
       deadAt |-> Null, action |-> [split |-> FALSE, eject |-> TRUE],
       keys |-> NoKeys, endIn |-> 40000],
      \* one heavy cell on a virus
      [pcs |-> <<RestCell(1, 1000, 1000, 130, 0)>>,
       bot |-> OneCellBot(50, 3000, 3000, 20, Pos(3000, 3000)),
       bot2 |-> FillerBot(2), blobs |-> <<>>,
       food |-> Pos(100, 100), food2 |-> Pos(100, 100), viruses |-> <<Pos(1000, 1000)>>,
       deadAt |-> Null, action |-> NoAction, keys |-> NoKeys, endIn |-> 40000] }

\* the state that record s describes
InSnapshot(s) ==
        /\ playerCells = s.pcs
        /\ bots = [i \in 1..BOT_COUNT |->
                     IF i = 1 THEN s.bot ELSE IF i = 2 THEN s.bot2 ELSE FillerBot(i)]
        /\ foods = [i \in 1..FOOD_COUNT |->
                      IF i = 1 THEN [id |-> 30, x |-> s.food.x, y |-> s.food.y]
                      ELSE IF i = 2 THEN [id |-> 32, x |-> s.food2.x, y |-> s.food2.y]
                      ELSE [id |-> 30 + i, x |-> 100 * PosUnit, y |-> 100 * PosUnit]]
        /\ viruses = [i \in 1..Len(s.viruses) |->
                        [id |-> 40 + i, x |-> s.viruses[i].x, y |-> s.viruses[i].y]]
        /\ ejectedMass = s.blobs
        /\ camera = IF s.pcs = <<>> THEN Pos(2000, 2000)
                    ELSE [x |-> s.pcs[1].x, y |-> s.pcs[1].y]
        /\ score = 25
        /\ gameOver = FALSE
        /\ gameStarted = TRUE
        /\ gameEndTime = Clock0 + s.endIn
        /\ playerDeadAt = s.deadAt
        /\ inputState = s.keys
        /\ lastMoveDir = [x |-> DirUnit, y |-> 0]
        /\ actionRef = s.action
        /\ stage = "PLAYING"
        /\ outcome = <<>>
        /\ clock = Clock0
        /\ pc = "idle"
        /\ nextId = 100
        /\ events = {}
        /\ ticks = 0
        /\ inputEvents = 0
        /\ requestRef = 1
        /\ frames = {1}
        /\ gameStartedProp = TRUE

\* a state in the middle of a running match
MidMatch == \E s \in Snapshots : InSnapshot(s)

\* viruses of a match (the 40 of initWorld, scaled down)
VIRUS_COUNT == 1

\* the state after the components are constructed: the GameState of lines 45-57,
\* the refs of lines 37-42 and the state of App; the player has typed a name
Constructed ==
    /\ playerCells = <<>>
    /\ bots = <<>>
    /\ foods = <<>>
    /\ viruses = <<>>
    /\ ejectedMass = <<>>
    /\ camera = [x |-> MAP_WIDTH \div 2, y |-> MAP_HEIGHT \div 2]
    /\ score = 0
    /\ gameOver = FALSE
    /\ gameStarted = FALSE
    /\ gameEndTime = 0
    /\ playerDeadAt = Null
    /\ inputState = NoKeys
    /\ lastMoveDir = [x |-> DirUnit, y |-> 0]
    /\ actionRef = NoAction
    /\ stage = "MENU"
    /\ outcome = <<>>
    /\ clock = Clock0
    /\ pc = "idle"
    /\ nextId = 100
    /\ events = {}
    /\ ticks = 0
    /\ inputEvents = 0
    /\ requestRef = 0
    /\ frames = {}
    /\ gameStartedProp = FALSE

Init == Constructed \/ MidMatch

\* initWorld, lines 114-170, with its call of spawnPlayer: the bots and the
\* player are placed at random, the pellets and the viruses by one fixed draw
initWorld ==
    \E r \in [1..BOT_COUNT -> BotSpawns], ppos \in SpawnPositions :
        LET v0 == nextId + FOOD_COUNT
            b0 == v0 + VIRUS_COUNT
            p0 == b0 + 2 * BOT_COUNT
        IN  /\ foods' = [i \in 1..FOOD_COUNT |->
                           [id |-> nextId + i - 1, x |-> 100 * PosUnit,
                            y |-> 100 * PosUnit]]
            /\ viruses' = [i \in 1..VIRUS_COUNT |->
                             [id |-> v0 + i - 1, x |-> 1000 * PosUnit,
                              y |-> 1000 * PosUnit]]
            /\ bots' = [i \in 1..BOT_COUNT |->
                          spawnBot(b0 + 2 * (i - 1), r[i].pos, r[i].mass,
                                   r[i].target, clock)]
            /\ playerCells' = <<spawnPlayer(p0, ppos, clock)>>
            /\ camera' = ppos
            /\ ejectedMass' = <<>>
            /\ score' = 0
            /\ gameOver' = FALSE
            /\ gameStarted' = TRUE
            /\ gameEndTime' = clock + GAME_DURATION_MS
            /\ playerDeadAt' = Null
            /\ inputState' = NoKeys
            /\ lastMoveDir' = [x |-> DirUnit, y |-> 0]
            /\ nextId' = p0 + 1

\* the loop effect of GameCanvas, lines 972-990, run again for a render with
\* the gameStarted prop started: the cleanup of the previous run cancels the
\* frame of requestRef (line 989), then a frame is requested if started (lines
\* 985-987); the call of initWorld (lines 974-977) is part of HandleStart
LoopEffect(started) ==
    /\ gameStartedProp' = started
    /\ IF started
       THEN RequestFrame(cancelAnimationFrame(frames, requestRef))
       ELSE /\ frames' = cancelAnimationFrame(frames, requestRef)
            /\ requestRef' = requestRef

\* App.handleStart with a player name, and the loop effect of GameCanvas, lines
\* 972-990, that follows it: initWorld runs only while GameState.gameStarted is
\* false, and nothing resets that flag once a match has started
HandleStart ==
    /\ pc = "idle"
    /\ stage = "MENU"
    /\ stage' = "PLAYING"
    /\ LoopEffect(TRUE)
    /\ IF ~gameStarted
       THEN initWorld
       ELSE UNCHANGED <<world, gameOver, gameStarted, gameEndTime, playerDeadAt,
                        inputState, lastMoveDir, nextId>>
    /\ UNCHANGED <<outcome, actionRef, inputEvents, clock, pc, events, ticks>>

\* App.handleRestart: the Play Again button of the game over screen; App renders
\* again, update has a new onGameOver, and the loop effect runs again
HandleRestart ==
    /\ pc = "idle"
    /\ stage = "GAME_OVER"
    /\ stage' = "MENU"
    /\ LoopEffect(FALSE)
    /\ UNCHANGED <<world, gameOver, gameStarted, gameEndTime, outcome, input,
                   playerDeadAt, lastMoveDir, clock, pc, nextId, events, ticks>>

\* the render that follows App.handleGameOver (App.tsx lines 27-30): it takes
\* place once the frame callback that called onGameOver has returned; the
\* gameStarted prop is false and the loop effect runs again
RenderGameOver ==
    /\ pc = "idle"
    /\ stage = "GAME_OVER"
    /\ gameStartedProp
    /\ LoopEffect(FALSE)
    /\ UNCHANGED <<world, life, input, playerDeadAt, lastMoveDir, clock, pc,
                   nextId, events, ticks>>

\* update(): one call is the chain of these steps
Update ==
    \/ UpdateReturn
    \/ GameOverCheck
    \/ Respawn
    \/ ProcessSplit
    \/ ProcessEject
    \/ PlayerMove
    \/ BotLogic
    \/ PlayerSelfCollision
    \/ FoodStage
    \/ CrossActor
    \/ VirusStage
    \/ EjectedStage
    \/ UpdateCamera

Next ==
    \/ Update
    \/ \E key \in Keys : HandleKeyDown(key)
    \/ \E key \in Keys : HandleKeyUp(key)
    \/ TriggerSplit
    \/ TriggerEject
    \/ HandleRestart
    \/ HandleStart
    \/ RenderGameOver

Spec == Init /\ [][Next]_vars

\* ------------------------------------------------------------ a match to its end
\* A second specification follows the ticks of a match until it is over.  The
\* frames are further apart, the match has LiveEndIn ms left, and it starts
\* from the snapshots in which the player or the first bot is dead.  The
\* keyboard and button handlers are left out: the respawn logic reads neither
\* the keys nor the intents, and the intents of the snapshots are still served.
LiveGaps == {3000, 4000}
LiveEndIn == 14500
LiveTicks == 6

LiveSnapshots ==
    { [s EXCEPT !.endIn = LiveEndIn] :
        s \in {t \in Snapshots : t.pcs = <<>> \/ t.bot.cells = <<>>} }

LiveInit == \E s \in LiveSnapshots : InSnapshot(s)

\* update(): one call is the chain of these steps
LiveNext ==
    \/ UpdateReturnIn(LiveGaps, LiveTicks)
    \/ GameOverCheckIn(LiveGaps, LiveTicks)
    \/ RespawnIn(LiveGaps, LiveTicks)
    \/ ProcessSplit
    \/ ProcessEject
    \/ PlayerMove
    \/ BotLogic
    \/ PlayerSelfCollision
    \/ FoodStage
    \/ CrossActor
    \/ VirusStage
    \/ EjectedStage
    \/ UpdateCamera

\* the positions of the frame loop: the stage that runs next
Stages ==
    {"idle", "split", "eject", "move", "bots", "selfcollide", "food", "cross",
     "virus", "ejected", "camera"}

\* all the ticks that are followed have run
Halted == pc = "idle" /\ ~(ticks < LiveTicks)

\* The frame loop of lines 978-986 requests the next frame at the end of every
\* frame, so a tick that can run does run, and runs to its end.  FrameStep is a
\* step of that loop as its position shows it: the stage or the tick count
\* changes.  Every step of LiveNext is such a step, and LiveNext can take a step
\* in every state that is not Halted, so that weak fairness of FrameStep is weak
\* fairness of LiveNext.
FrameStep ==
    /\ ~Halted
    /\ pc' \in Stages
    /\ ticks' \in 0..LiveTicks
    /\ <<pc, ticks>>' # <<pc, ticks>>

LiveSpec == LiveInit /\ [][LiveNext]_vars /\ WF_<<pc, ticks>>(FrameStep)

\* ------------------------------------------------------------ claims
\* the split stage is about to process a split intent
SplitStep == pc = "split" /\ playerCells # <<>> /\ actionRef.split

\* the cells of `cells` that a split batch splits: the cells heavy enough, in
\* order, as long as the running count stays below the cap
SplitSet(cells) ==
    LET eligible == {k \in DOMAIN cells : cells[k].mass >= M(MIN_MASS_TO_SPLIT)}
    IN  {k \in eligible :
            Cardinality({j \in eligible : j < k}) < MAX_CELLS - Len(cells)}

\* the m-th element of a set of indices, in increasing order
Nth(S, m) == CHOOSE k \in S : Cardinality({j \in S : j < k}) = m - 1

\* C1: in every reachable state the player and every bot have at most MAX_CELLS
\* cells, whatever splits, explosions, merges and consumptions occurred.
C1_CellCap ==
    /\ Len(playerCells) <= MAX_CELLS
    /\ \A b \in DOMAIN bots : Len(bots[b].cells) <= MAX_CELLS

\* a split batch stopped at the cap: the player holds MAX_CELLS cells right after
\* a split, and a cell heavy enough to split was left whole
C1_Witness ==
    /\ pc = "eject"
    /\ "split" \in events
    /\ Len(playerCells) = MAX_CELLS
    /\ \E k \in DOMAIN playerCells : playerCells[k].mass >= M(MIN_MASS_TO_SPLIT)

\* C2: processing one split intent conserves the player's total mass: the cells
\* that split are the cells of mass >= 35 met while the running count is below
\* 16, each is replaced by two cells of exactly half its mass, the other cells
\* are untouched, and the count grows by one per cell that split.
C2_SplitConservesMass ==
    [][ SplitStep =>
          LET n     == Len(playerCells)
              split == SplitSet(playerCells)
          IN  /\ TotalMass(playerCells') = TotalMass(playerCells)
              /\ Len(playerCells') = n + Cardinality(split)
              /\ \A k \in 1..n :
                    IF k \in split
                    THEN 2 * playerCells'[k].mass = playerCells[k].mass
                    ELSE playerCells'[k] = playerCells[k]
              /\ \A m \in 1..Cardinality(split) :
                    2 * playerCells'[n + m].mass = playerCells[Nth(split, m)].mass
      ]_vars

\* a single cell of mass 40 was split into two cells of mass 20
C2_Witness ==
    /\ pc = "eject"
    /\ "split" \in events
    /\ Len(playerCells) = 2
    /\ \A k \in DOMAIN playerCells : playerCells[k].mass = M(20)

\* C3: when a split intent is processed and no player cell has mass >= 35, the
\* split step creates no cell and changes no cell.
C3_NoSplitBelowThreshold ==
    [][ (SplitStep /\ \A k \in DOMAIN playerCells :
                         playerCells[k].mass < M(MIN_MASS_TO_SPLIT))
          => playerCells' = playerCells ]_vars

\* a split intent was consumed by a single cell of mass 15, which is still alone
C3_Witness ==
    /\ pc = "eject"
    /\ "consumeSplit" \in events
    /\ "split" \notin events
    /\ Len(playerCells) = 1
    /\ playerCells[1].mass = M(INITIAL_MASS)

\* the sibling that a split batch creates for the split cell k is the
\* (number of split cells up to k)-th cell appended
SiblingOf(cells, k) ==
    Len(cells) + Cardinality({j \in SplitSet(cells) : j <= k})

\* C4 as stated: the sibling of a split cell lies at the original cell's position
\* offset along the last movement direction by the radius the original cell had
\* before the split.
C4_SiblingAtPreSplitRadius ==
    [][ SplitStep =>
          \A k \in SplitSet(playerCells) :
              LET new == playerCells'[SiblingOf(playerCells, k)]
              IN  /\ new.x = playerCells[k].x + Along(lastMoveDir'.x, playerCells[k].radius)
                  /\ new.y = playerCells[k].y + Along(lastMoveDir'.y, playerCells[k].radius)
      ]_vars

\* C4, amended: the sibling of a split cell lies at the original cell's position
\* offset along the last movement direction by the radius of the halved cell,
\* massToRadius(mass / 2), the original cell itself staying where it was.
C4_SiblingAtPostSplitRadius ==
    [][ SplitStep =>
          \A k \in SplitSet(playerCells) :
              LET new  == playerCells'[SiblingOf(playerCells, k)]
                  half == massToRadius(playerCells[k].mass \div 2)
              IN  /\ new.x = playerCells[k].x + Along(lastMoveDir'.x, half)
                  /\ new.y = playerCells[k].y + Along(lastMoveDir'.y, half)
                  /\ playerCells'[k].x = playerCells[k].x
                  /\ playerCells'[k].y = playerCells[k].y
                  /\ playerCells'[k].radius = half
      ]_vars

\* a cell of mass 40 was split in direction (1, 0): the sibling is one mass-20
\* radius to the right of the original, at the same height
C4_Witness ==
    /\ pc = "eject"
    /\ "split" \in events
    /\ lastMoveDir = [x |-> DirUnit, y |-> 0]
    /\ Len(playerCells) = 2
    /\ playerCells[1].mass = M(20)
    /\ playerCells[2].x = playerCells[1].x + massToRadius(M(20))
    /\ playerCells[2].y = playerCells[1].y

\* C5 as stated: right after a split at time now, both the original cell and its
\* sibling have mergeTimer > now + MERGE_COOLDOWN_MS.
C5_BothCoolDown ==
    [][ SplitStep =>
          \A k \in SplitSet(playerCells) :
              /\ playerCells'[k].mergeTimer > clock + MERGE_COOLDOWN_MS
              /\ playerCells'[SiblingOf(playerCells, k)].mergeTimer
                    > clock + MERGE_COOLDOWN_MS
      ]_vars

\* C5, amended: right after a split at time now, the new sibling has
\* mergeTimer > now + MERGE_COOLDOWN_MS and was created at now, while the original
\* cell keeps the mergeTimer it had before the split.
C5_SiblingCoolsDown ==
    [][ SplitStep =>
          \A k \in SplitSet(playerCells) :
              LET new == playerCells'[SiblingOf(playerCells, k)]
              IN  /\ new.mergeTimer > clock + MERGE_COOLDOWN_MS
                  /\ new.createdAt = clock
                  /\ playerCells'[k].mergeTimer = playerCells[k].mergeTimer
      ]_vars

\* a cell whose merge timer had elapsed was split: the sibling cools down, the
\* original does not
C5_Witness ==
    /\ pc = "eject"
    /\ "split" \in events
    /\ \E k, n \in DOMAIN playerCells :
          /\ playerCells[n].createdAt = clock
          /\ playerCells[n].mergeTimer > clock + MERGE_COOLDOWN_MS
          /\ playerCells[k].createdAt < clock
          /\ playerCells[k].mergeTimer < clock
          /\ playerCells[k].mass = playerCells[n].mass
          /\ playerCells[k].y = playerCells[n].y

\* the eject stage is about to process an eject intent
EjectStep == pc = "eject" /\ actionRef.eject

\* the cells heavy enough to eject
EjectSet(cells) == {k \in DOMAIN cells : cells[k].mass >= M(MIN_MASS_TO_EJECT)}

\* C6: processing one eject intent, every player cell of mass >= 35 loses exactly
\* 16 mass and exactly one blob is appended for it, of mass 12, owned by that cell
\* and created at the current time; lighter cells are unchanged and emit nothing.
C6_EjectLosesSixteen ==
    [][ EjectStep =>
          LET ejecting == EjectSet(playerCells)
              old      == Len(ejectedMass)
          IN  /\ Len(playerCells') = Len(playerCells)
              /\ \A k \in DOMAIN playerCells :
                    IF k \in ejecting
                    THEN /\ playerCells'[k].mass = playerCells[k].mass - M(EJECT_MASS_LOSS)
                         /\ playerCells'[k].id = playerCells[k].id
                    ELSE playerCells'[k] = playerCells[k]
              /\ Len(ejectedMass') = old + Cardinality(ejecting)
              /\ SubSeq(ejectedMass', 1, old) = ejectedMass
              /\ \A m \in 1..Cardinality(ejecting) :
                    LET blob == ejectedMass'[old + m]
                    IN  /\ blob.mass = M(EJECT_MASS_GAIN)
                        /\ blob.ownerId = playerCells[Nth(ejecting, m)].id
                        /\ blob.createdAt = clock
      ]_vars

\* an eject was processed by a player with a cell that ejected, whose blob was
\* created now, and a cell too light to eject, which has no blob
C6_Witness ==
    /\ pc = "move"
    /\ "eject" \in events
    /\ \E b \in DOMAIN ejectedMass :
          /\ ejectedMass[b].createdAt = clock
          /\ \E k \in DOMAIN playerCells : playerCells[k].id = ejectedMass[b].ownerId
    /\ \E k \in DOMAIN playerCells :
          \A b \in DOMAIN ejectedMass : ejectedMass[b].ownerId # playerCells[k].id

\* the player's self-collision pass is about to run
SelfCollideStep == pc = "selfcollide"

\* two cells overlap
Overlap(c1, c2) == getDistance(c1, c2) < c1.radius + c2.radius

\* the cell of `cells` with identifier id, as a set (empty when it is gone)
WithId(cells, id) == {cells[k] : k \in {n \in DOMAIN cells : cells[n].id = id}}

\* C7: a cell whose mergeTimer is greater than the current time takes part in no
\* merge: after the self-collision pass of its actor it is still in the collection
\* with the mass it had; two overlapping cells of which one is cooling down are
\* pushed apart, never closer, and both remain.
C7_NoMergeWhileCooling ==
    [][ /\ SelfCollideStep =>
            /\ \A k \in DOMAIN playerCells :
                  playerCells[k].mergeTimer > clock =>
                      \E c \in WithId(playerCells', playerCells[k].id) :
                          c.mass = playerCells[k].mass
            /\ ( /\ Len(playerCells) = 2
                 /\ Overlap(playerCells[1], playerCells[2])
                 /\ \E k \in 1..2 : playerCells[k].mergeTimer > clock )
               => /\ Len(playerCells') = 2
                  /\ getDistance(playerCells'[1], playerCells'[2])
                        >= getDistance(playerCells[1], playerCells[2])
        /\ pc = "bots" =>
            \A b \in DOMAIN bots : \A k \in DOMAIN bots[b].cells :
                bots[b].cells[k].mergeTimer > clock =>
                    WithId(bots'[b].cells, bots[b].cells[k].id) # {}
      ]_vars

\* the self-collision pass pushed cells apart and merged none, and two cells that
\* are still cooling down touch
C7_Witness ==
    /\ pc = "food"
    /\ "pushApart" \in events
    /\ "merge" \notin events
    /\ \E k, n \in DOMAIN playerCells :
          /\ k < n
          /\ playerCells[k].mergeTimer > clock
          /\ playerCells[n].mergeTimer > clock
          /\ getDistance(playerCells[k], playerCells[n])
                <= playerCells[k].radius + playerCells[n].radius + PosUnit

\* one self-collision pass stated over the original indices: `alive` holds the
\* indices not yet absorbed, every pair i < j of cells alive when its turn comes
\* is examined exactly once, in order
RECURSIVE RefRow(_, _, _, _, _)
RefRow(cells, alive, i, j, now) ==
    IF j > Len(cells) THEN [cells |-> cells, alive |-> alive]
    ELSE IF j \in alive /\ Overlap(cells[i], cells[j])
         THEN IF now > cells[i].mergeTimer /\ now > cells[j].mergeTimer
              THEN RefRow([cells EXCEPT ![i].mass = cells[i].mass + cells[j].mass,
                                        ![i].radius = massToRadius(cells[i].mass
                                                                   + cells[j].mass)],
                          alive \ {j}, i, j + 1, now)
              ELSE LET p == PushApart(cells[i], cells[j])
                   IN  RefRow([cells EXCEPT ![i] = p[1], ![j] = p[2]], alive, i, j + 1, now)
         ELSE RefRow(cells, alive, i, j + 1, now)

RECURSIVE RefPass(_, _, _, _)
RefPass(cells, alive, i, now) ==
    IF i > Len(cells)
    THEN [m \in 1..Cardinality(alive) |-> cells[Nth(alive, m)]]
    ELSE IF i \in alive
         THEN LET row == RefRow(cells, alive, i, i + 1, now)
              IN  RefPass(row.cells, row.alive, i + 1, now)
         ELSE RefPass(cells, alive, i + 1, now)

\* C8: a self-collision pass conserves the player's total mass; two overlapping
\* cells whose merge timers have both elapsed become one cell, the first one, with
\* the sum of the two masses; and a removal makes the pass neither skip nor repeat
\* a pair: the result is that of examining every pair of surviving cells once.
C8_OneMergePerPair ==
    [][ SelfCollideStep =>
          /\ TotalMass(playerCells') = TotalMass(playerCells)
          /\ playerCells' = RefPass(playerCells, DOMAIN playerCells, 1, clock)
          /\ ( /\ Len(playerCells) = 2
               /\ Overlap(playerCells[1], playerCells[2])
               /\ \A k \in 1..2 : clock > playerCells[k].mergeTimer )
             => /\ Len(playerCells') = 1
                /\ playerCells'[1].id = playerCells[1].id
                /\ playerCells'[1].mass = playerCells[1].mass + playerCells[2].mass
      ]_vars

\* a self-collision pass merged two overlapping cells of masses 40 and 30 into
\* the first one, now of mass 70
C8_Witness ==
    /\ pc = "food"
    /\ "merge" \in events
    /\ Len(playerCells) = 1
    /\ playerCells[1].id = 1
    /\ playerCells[1].mass = M(70)
    /\ clock > playerCells[1].mergeTimer

\* every cell of the match, the player's and the bots'
AllCells ==
    {playerCells[k] : k \in DOMAIN playerCells}
        \cup UNION { {bots[b].cells[k] : k \in DOMAIN bots[b].cells} : b \in DOMAIN bots }

\* C9 as stated, read on the cells created since the initial state: every freshly
\* spawned player cell, freshly spawned bot cell, split sibling and virus fragment
\* has mergeTimer >= its createdAt timestamp.
C9_TimerNotBeforeCreation ==
    \A c \in AllCells : c.createdAt >= Clock0 => c.mergeTimer >= c.createdAt

\* C9, amended: every cell has mergeTimer >= its createdAt timestamp, except the
\* cells spawned by spawnPlayer and spawnBot, whose mergeTimer is 0.
C9_TimerZeroOrNotBeforeCreation ==
    \A c \in AllCells : c.mergeTimer = 0 \/ c.mergeTimer >= c.createdAt

\* in one tick a bot respawned, its cell with mergeTimer 0, and the player
\* split, the sibling with a mergeTimer later than its creation
C9_Witness ==
    /\ pc = "eject"
    /\ "split" \in events
    /\ \E b \in DOMAIN bots : \E k \in DOMAIN bots[b].cells :
          /\ bots[b].cells[k].createdAt = clock
          /\ bots[b].cells[k].mergeTimer = 0
    /\ \E k \in DOMAIN playerCells :
          /\ playerCells[k].createdAt = clock
          /\ playerCells[k].mergeTimer > clock

\* a cell lies inside the map by its radius
InBounds(c) ==
    /\ c.radius <= c.x /\ c.x <= MAP_WIDTH - c.radius
    /\ c.radius <= c.y /\ c.y <= MAP_HEIGHT - c.radius

\* C10: after every tick of a running match every player cell and every bot cell
\* satisfies radius <= x <= MAP_WIDTH - radius and radius <= y <= MAP_HEIGHT -
\* radius, whatever the tick's push-aparts, growth and fragmentations did.
C10_CellsInBoundsAfterTick ==
    pc = "idle" => \A c \in AllCells : InBounds(c)

\* C11: after every tick every ejected blob satisfies 0 <= x <= MAP_WIDTH and
\* 0 <= y <= MAP_HEIGHT: a blob that reaches a boundary is put on it and sent
\* back into the map.
C11_BlobsInMapAfterTick ==
    pc = "idle" =>
        \A b \in DOMAIN ejectedMass :
            /\ 0 <= ejectedMass[b].x /\ ejectedMass[b].x <= MAP_WIDTH
            /\ 0 <= ejectedMass[b].y /\ ejectedMass[b].y <= MAP_HEIGHT

\* the stages of a tick that come after the food stage, and the end of the tick
AfterFood == {"cross", "virus", "ejected", "camera", "idle"}

\* C12: after the food consumption-and-replenish stage of every tick, and at the
\* end of every tick, the food collection holds exactly FOOD_COUNT pellets (800 in
\* the program), however many pellets were eaten in the tick; initWorld starts
\* the match with that many.
C12_FoodReplenished ==
    gameStarted /\ pc \in AfterFood => Len(foods) = FOOD_COUNT

\* the food stage has just run, the player ate a pellet in it, and the
\* collection holds a pellet pushed by the respawn loop
C12_Witness ==
    /\ pc = "cross"
    /\ "eatFood" \in events
    /\ Len(foods) = FOOD_COUNT
    /\ \E f \in DOMAIN foods : foods[f].id >= 100

\* the food stage is about to run
FoodStep == pc = "food"

\* the eaters in eater order: the player's cells, then each bot's cells
RECURSIVE FlatCells(_, _, _)
FlatCells(pcs, bs, b) ==
    IF b > Len(bs) THEN pcs ELSE FlatCells(pcs \o bs[b].cells, bs, b + 1)

\* the centre of the pellet lies inside the cell's circle (a point farther than
\* the radius on one axis is outside it)
Inside(cell, food) ==
    /\ Abs(cell.x - food.x) <= cell.radius
    /\ Abs(cell.y - food.y) <= cell.radius
    /\ (cell.x - food.x) * (cell.x - food.x) + (cell.y - food.y) * (cell.y - food.y)
          < cell.radius * cell.radius

\* the pellets of fs that are no longer in gs
Eaten(fs, gs) ==
    {i \in DOMAIN fs : \A j \in DOMAIN gs : gs[j].id # fs[i].id}

\* C13: in the food stage every pellet is eaten by at most one cell, which gains
\* exactly 1 mass: the cells' masses grow by the number of pellets removed and the
\* score by the number the player's cells ate; a pellet some cell contains is
\* removed and a pellet no cell contains remains; and the eater is the first cell
\* in eater order (player cells, then bot cells) that contains the pellet.
C13_FirstEaterGainsOne ==
    [][ FoodStep =>
          LET old   == FlatCells(playerCells, bots, 1)
              new   == FlatCells(playerCells', bots', 1)
              eaten == Eaten(foods, foods')
          IN  /\ Len(new) = Len(old)
              /\ Len(playerCells') = Len(playerCells)
              /\ \A c \in DOMAIN old :
                    /\ new[c].mass >= old[c].mass
                    /\ (new[c].mass - old[c].mass) % M(1) = 0
                    /\ new[c].id = old[c].id
              /\ TotalMass(new) = TotalMass(old) + M(Cardinality(eaten))
              /\ M(score' - score) = TotalMass(playerCells') - TotalMass(playerCells)
              /\ \A i \in DOMAIN foods :
                    /\ (\E c \in DOMAIN old : Inside(old[c], foods[i])) => i \in eaten
                    /\ (\A c \in DOMAIN new : ~Inside(new[c], foods[i])) => i \notin eaten
              /\ \A i \in eaten :
                    Cardinality(eaten) = 1 =>
                        LET holders == {c \in DOMAIN old : Inside(old[c], foods[i])}
                        IN  /\ holders # {}
                            /\ \A c \in DOMAIN old :
                                  new[c].mass = old[c].mass
                                     + (IF c = Nth(holders, 1) THEN M(1) ELSE 0)
      ]_vars

\* the food stage has just run: a player cell that held two pellets, one of them
\* together with a bot cell later in eater order, has eaten both, gaining 2 mass
\* and 2 points, the bot cell has not grown, and the third pellet remains
C13_Witness ==
    /\ pc = "cross"
    /\ "eatFood" \in events
    /\ ticks = 1
    /\ score = 27
    /\ Len(playerCells) = 1
    /\ playerCells[1].mass = M(42)
    /\ \A f \in DOMAIN foods : foods[f].id \notin {30, 32}
    /\ \E f \in DOMAIN foods : foods[f].id = 33
    /\ bots[1].cells # <<>>
    /\ bots[1].cells[1].mass = M(15)
    /\ getDistance(bots[1].cells[1], playerCells[1]) < PosUnit * 10

\* C14: once a tick has found the match time used up, that tick and every later
\* step leave the player's cells, the bots, the pellets, the viruses, the ejected
\* mass, the score and the camera as they were
C14_FrozenAfterGameOver ==
    [][gameOver' => world' = world]_vars

\* the match ended in the first tick, the player pressed Play Again and Start, and
\* a second tick ran on the populated world
C14_Witness ==
    /\ gameOver
    /\ ticks = 2
    /\ pc = "idle"
    /\ stage = "PLAYING"
    /\ clock >= gameEndTime + 16
    /\ playerCells # <<>>
    /\ inputState.left

\* a step that starts a tick
TickStart == ticks' = ticks + 1

\* C15: onGameOver is called exactly once, by the first tick that reads a time at
\* or after gameEndTime, with the score held at that moment; it is not called
\* before that tick and not called again after it
C15_GameOverReportedOnce ==
    [][ /\ Len(outcome') <= 1
        /\ outcome' # outcome =>
              /\ TickStart
              /\ clock' >= gameEndTime
              /\ outcome = <<>>
              /\ outcome' = <<score>>
              /\ score' = score
        /\ (TickStart /\ clock' >= gameEndTime /\ outcome = <<>>) =>
              outcome' = <<score>>
        /\ (TickStart /\ clock' < gameEndTime) => outcome' = <<>> ]_vars

\* the match ended in its second tick, after the first tick raised the score,
\* and the raised score was reported
C15_Witness ==
    /\ ticks = 2
    /\ gameOver
    /\ score > 25
    /\ outcome = <<score>>
    /\ clock >= gameEndTime

\* the last step of a tick of a running match
RunningTickEnd == pc = "camera" /\ pc' = "idle"

C17_EndsOnlyByTime ==
    [][ /\ (~gameOver /\ gameOver') => (TickStart /\ gameStarted /\ clock' >= gameEndTime)
        /\ gameOver => gameOver'
        /\ (~gameStarted /\ gameStarted') =>
              (~gameOver' /\ gameEndTime' = clock' + GAME_DURATION_MS)
        /\ gameStarted => (gameStarted' /\ gameEndTime' = gameEndTime) ]_vars

\* the player lost its last cell in the first tick, the match went on, and the
\* second tick ended the match because the time was used up
C17_Witness ==
    /\ gameOver
    /\ ticks = 2
    /\ playerCells = <<>>
    /\ playerDeadAt = Null
    /\ clock >= gameEndTime
    /\ clock - 30000 < gameEndTime

\* C18: in a running match a player without cells gets cells again only in a
\* step that starts a tick at least RESPAWN_DELAY_MS after the recorded death
\* time, and that tick does respawn; the respawn leaves exactly one cell of mass
\* INITIAL_MASS with zero velocity and clears the death time.  The death time is
\* recorded by the first tick that finds the player without cells, as the time of
\* that tick, and is kept until the respawn.
C18_PlayerRespawnAfterDelay ==
    [][ /\ (gameStarted /\ playerCells = <<>> /\ playerCells' # <<>>) =>
              /\ TickStart
              /\ playerDeadAt # Null
              /\ clock' - playerDeadAt >= RESPAWN_DELAY_MS
              /\ Len(playerCells') = 1
              /\ playerCells'[1].mass = M(INITIAL_MASS)
              /\ playerCells'[1].vx = 0
              /\ playerCells'[1].vy = 0
              /\ playerDeadAt' = Null
        /\ (TickStart /\ pc' = "split" /\ playerCells = <<>> /\ playerDeadAt # Null
               /\ clock' - playerDeadAt >= RESPAWN_DELAY_MS) =>
              playerCells' # <<>>
        /\ (gameStarted /\ playerDeadAt = Null /\ playerDeadAt' # Null) =>
              (TickStart /\ playerCells = <<>> /\ playerDeadAt' = clock')
        /\ (playerDeadAt # Null /\ playerDeadAt' # playerDeadAt) =>
              (playerDeadAt' = Null /\ playerCells' # <<>>) ]_vars

\* the player stayed dead in a tick 2984 ms after its death and was respawned by
\* the next tick, exactly RESPAWN_DELAY_MS after its death
C18_Witness ==
    /\ pc = "split"
    /\ ticks = 2
    /\ clock = Clock0 + 32
    /\ Len(playerCells) = 1
    /\ playerCells[1].createdAt = clock
    /\ playerCells[1].mass = M(INITIAL_MASS)
    /\ playerDeadAt = Null

\* the identifiers of the bots and of their cells
BotIds(bs) ==
    {bs[i].id : i \in 1..Len(bs)}
      \cup UNION {{bs[i].cells[j].id : j \in 1..Len(bs[i].cells)} : i \in 1..Len(bs)}

\* the step that starts a tick of a running match that is not its last one
RunningTickStart == TickStart /\ pc' = "split"

\* C19: the tick that first finds a bot without cells sets its deadAt to the time
\* of the tick; later ticks leave the slot alone while no more than
\* RESPAWN_DELAY_MS have passed since deadAt; the tick that finds more time passed
\* puts a new bot in the slot: identifiers not used before, exactly one cell, no
\* deadAt.  What happens to a slot depends on that slot only, not on the
\* other bots or on the player, and a slot changes its bot in no other step.
C19_BotRespawnAfterDelay ==
    [][ gameStarted =>
          /\ Len(bots') = Len(bots)
          /\ \A i \in 1..Len(bots) :
                /\ (RunningTickStart /\ bots[i].cells # <<>>) => bots'[i] = bots[i]
                /\ (RunningTickStart /\ bots[i].cells = <<>> /\ bots[i].deadAt = 0) =>
                      bots'[i] = [bots[i] EXCEPT !.deadAt = clock']
                /\ (RunningTickStart /\ bots[i].cells = <<>> /\ bots[i].deadAt # 0
                       /\ clock' - bots[i].deadAt <= RESPAWN_DELAY_MS) =>
                      bots'[i] = bots[i]
                /\ (RunningTickStart /\ bots[i].cells = <<>> /\ bots[i].deadAt # 0
                       /\ clock' - bots[i].deadAt > RESPAWN_DELAY_MS) =>
                      /\ bots'[i].id # bots[i].id
                      /\ bots'[i].id \notin BotIds(bots)
                      /\ Len(bots'[i].cells) = 1
                      /\ bots'[i].cells[1].id \notin BotIds(bots) \cup {bots'[i].id}
                      /\ bots'[i].deadAt = 0
                /\ bots'[i].id # bots[i].id =>
                      /\ RunningTickStart
                      /\ bots[i].cells = <<>>
                      /\ bots[i].deadAt # 0
                      /\ clock' - bots[i].deadAt > RESPAWN_DELAY_MS ]_vars

\* the first tick found the bot dead for 2984 ms and left it, the second tick
\* found it dead for more than RESPAWN_DELAY_MS and replaced it
C19_Witness ==
    /\ pc = "split"
    /\ ticks = 2
    /\ clock = Clock0 + 16 + 3000
    /\ bots[1].id >= 100
    /\ bots[1].deadAt = 0
    /\ Len(bots[1].cells) = 1
    /\ bots[1].cells[1].createdAt = clock

\* the virus stage is about to run
VirusStep == pc = "virus"

\* the player cells that explode on virus v: v's centre inside the cell and the
\* cell heavier than VIRUS_MASS * 1.1
Exploders(pcs, v) ==
    {j \in 1..Len(pcs) : Inside(pcs[j], v) /\ pcs[j].mass > M(110)}

\* the viruses with a player cell that explodes on them
Struck(pcs, vs) == {i \in 1..Len(vs) : Exploders(pcs, vs[i]) # {}}

\* cell j of pcs exploded into qs: bonus 150, pieces = min(16 - count, 6) new cells
\* appended, the pieces + 1 cells of equal mass, the other cells untouched.  The
\* quotient by pieces + 1 is rounded, so the sum is within one grain per cell of
\* the mass before plus 150; without pieces it is exact.
ExplodedInto(pcs, j, qs) ==
    LET pieces == Min(16 - Len(pcs), 6)
        parts  == {j} \cup (Len(pcs) + 1 .. Len(pcs) + pieces)
    IN  /\ pieces >= 0
        /\ Len(qs) = Len(pcs) + pieces
        /\ \A k \in 1..Len(pcs) : k # j => qs[k] = pcs[k]
        /\ \A k \in parts : qs[k].mass = qs[j].mass
        /\ Abs((pieces + 1) * qs[j].mass - (pcs[j].mass + M(150))) <= (pieces + 1) * MassGrain
        /\ Abs(TotalMass(qs) - (TotalMass(pcs) + M(150))) <= (pieces + 1) * MassGrain
        /\ pieces = 0 => qs[j].mass = pcs[j].mass + M(150)

\* C20: the virus stage changes the player's cells only if a cell contains a
\* virus centre and is heavier than 110.  When one virus is struck, one of the
\* cells on it gets 150 and is divided into pieces + 1 cells of equal mass,
\* pieces = min(16 - cell count, 6): the number of cells grows by pieces, the
\* player's total mass grows by 150, and with pieces = 0 the cell keeps its mass
\* plus 150.
C20_VirusExplosion ==
    [][VirusStep =>
         /\ Struck(playerCells, viruses) = {} => playerCells' = playerCells
         /\ Cardinality(Struck(playerCells, viruses)) = 1 =>
               \E i \in Struck(playerCells, viruses) :
                   /\ \A k \in 1..Len(viruses') : viruses'[k].id # viruses[i].id
                   /\ \E j \in Exploders(playerCells, viruses[i]) :
                          ExplodedInto(playerCells, j, playerCells') ]_vars

\* a single cell of mass 130 has exploded into seven cells
C20_Witness ==
    /\ pc = "ejected"
    /\ "explode" \in events
    /\ Len(playerCells) = 7
    /\ viruses = <<>>
    /\ \A k \in 1..7 : playerCells[k].mass = playerCells[1].mass
    /\ Abs(TotalMass(playerCells) - M(280)) <= 7 * MassGrain

\* the cells of old that are still there in new with another mass, by identifier
Changed(old, new) ==
    {i \in DOMAIN old : \E j \in DOMAIN new : new[j].id = old[i].id /\ new[j].mass # old[i].mass}

\* the elements of es that are no longer in fs, by identifier
Gone(es, fs) == {i \in DOMAIN es : \A j \in DOMAIN fs : fs[j].id # es[i].id}

\* the ejected stage is about to run
EjectedStep == pc = "ejected"

\* the cross-actor stage is about to run
CrossStep == pc = "cross"

\* C21: every entity consumed in a stage feeds exactly one cell.  Food stage:
\* the cells gain 1 per pellet removed.  Cross-actor stage: the cells that remain
\* hold the mass of all cells before.  Virus stage: no more cells change their
\* mass than viruses are removed, and a removed virus changed a cell.  Ejected
\* stage, when no blob is evicted by the cap: the cells gain the mass of the
\* blobs removed and no more cells change than blobs are removed.
C21_ConsumedExactlyOnce ==
    [][ LET old == FlatCells(playerCells, bots, 1)
            new == FlatCells(playerCells', bots', 1)
        IN  /\ FoodStep =>
                  TotalMass(new) = TotalMass(old) + M(Cardinality(Eaten(foods, foods')))
            /\ CrossStep => TotalMass(new) = TotalMass(old)
            /\ VirusStep =>
                  /\ Cardinality(Changed(old, new)) <= Cardinality(Gone(viruses, viruses'))
                  /\ Gone(viruses, viruses') # {} => Changed(old, new) # {}
            /\ (EjectedStep /\ Len(ejectedMass) <= EJECTED_CAP) =>
                  /\ TotalMass(new) = TotalMass(old)
                        + SumOver([i \in DOMAIN ejectedMass |->
                                     IF i \in Gone(ejectedMass, ejectedMass')
                                     THEN ejectedMass[i].mass ELSE 0],
                                  1, Len(ejectedMass))
                  /\ Cardinality(Changed(old, new))
                        <= Cardinality(Gone(ejectedMass, ejectedMass')) ]_vars

Shielded(c, e, now) == e.ownerId = c.id /\ now - e.createdAt < 500

\* cell c may consume blob e at time now: it contains the centre of the moved
\* blob, is heavier than 1.25 times the blob and the blob is not shielded from it
MayConsume(c, e, now) ==
    /\ Inside(c, MoveBlob(e))
    /\ c.mass * 100 > e.mass * 125
    /\ ~Shielded(c, e, now)

\* C23: in the ejected stage (taken when the cap evicts nothing) a blob that no
\* cell may consume other than its owner inside the 500 ms window remains, even
\* if the owner contains it and is heavy enough; a blob that some cell may
\* consume (any other cell, or the owner after the window) is removed.  The cells
\* are taken after the stage for the first part, since they only grow in it, and
\* before the stage for the second.
C23_OwnerGraceWindow ==
    [][ (EjectedStep /\ Len(ejectedMass) <= EJECTED_CAP) =>
          \A i \in DOMAIN ejectedMass :
              /\ (\A c \in {playerCells'[k] : k \in DOMAIN playerCells'}
                           \cup UNION {{bots'[b].cells[k] : k \in DOMAIN bots'[b].cells}
                                        : b \in DOMAIN bots'} :
                       ~MayConsume(c, ejectedMass[i], clock))
                     => i \notin Gone(ejectedMass, ejectedMass')
              /\ (\E c \in AllCells : MayConsume(c, ejectedMass[i], clock))
                     => i \in Gone(ejectedMass, ejectedMass') ]_vars

\* the ejected stage has run and left a blob younger than 500 ms inside the cell
\* that ejected it, which is heavy enough to consume it
C23_Witness ==
    /\ pc = "camera"
    /\ \E i \in DOMAIN ejectedMass : \E k \in DOMAIN playerCells :
          /\ Shielded(playerCells[k], ejectedMass[i], clock)
          /\ Inside(playerCells[k], ejectedMass[i])
          /\ playerCells[k].mass * 100 > ejectedMass[i].mass * 125

\* cell e, taken after the stage, can have eaten cell v: e contains the centre of
\* v and is heavier than 1.25 times v
CanHaveEaten(e, v) == Inside(e, v) /\ e.mass * 100 > v.mass * 125

\* the floors of the masses of the cells of cs with index in S, summed
FloorSum(cs, S) ==
    SumOver([i \in DOMAIN cs |-> IF i \in S THEN cs[i].mass \div MassUnit ELSE 0],
            1, Len(cs))

\* C24: in the cross-actor stage a player cell is removed only if a bot cell
\* contains its centre and is heavier than 1.25 times its mass, and a bot cell
\* only if a player cell does; the cells that remain hold the mass of all cells
\* before; no cell appears; the score grows by the floor of the mass of every bot
\* cell the player ate and not at all when only player cells were eaten; and when
\* one cell is eaten, its eater passed the test with the mass it had before the
\* stage and gains exactly the victim's mass.
C24_CrossActorEating ==
    [][ CrossStep =>
          LET ob == FlatCells(<<>>, bots, 1)
              nb == FlatCells(<<>>, bots', 1)
              gp == Gone(playerCells, playerCells')
              gb == Gone(ob, nb)
          IN  /\ \A i \in gp : \E j \in DOMAIN nb : CanHaveEaten(nb[j], playerCells[i])
              /\ \A i \in gb : \E j \in DOMAIN playerCells' :
                                   CanHaveEaten(playerCells'[j], ob[i])
              /\ Len(playerCells') = Len(playerCells) - Cardinality(gp)
              /\ Len(nb) = Len(ob) - Cardinality(gb)
              /\ TotalMass(playerCells') + TotalMass(nb)
                    = TotalMass(playerCells) + TotalMass(ob)
              /\ gb = {} => score' = score
              /\ gp = {} => score' = score + FloorSum(ob, gb)
              /\ (Cardinality(gp) = 1 /\ gb = {}) =>
                    \E i \in gp : \E j \in DOMAIN ob :
                        /\ CanHaveEaten(ob[j], playerCells[i])
                        /\ \E n \in DOMAIN nb :
                              /\ nb[n].id = ob[j].id
                              /\ nb[n].mass = ob[j].mass + playerCells[i].mass
              /\ (Cardinality(gb) = 1 /\ gp = {}) =>
                    \E i \in gb : \E j \in DOMAIN playerCells :
                        /\ CanHaveEaten(playerCells[j], ob[i])
                        /\ \E n \in DOMAIN playerCells' :
                              /\ playerCells'[n].id = playerCells[j].id
                              /\ playerCells'[n].mass = playerCells[j].mass + ob[i].mass ]_vars

\* the player has just eaten the first bot's only cell and the score grew by the
\* floor of that cell's mass or more
C24_Witness ==
    /\ pc = "virus"
    /\ "eatBot" \in events
    /\ bots[1].cells = <<>>
    /\ bots[1].deadAt = 0
    /\ score >= 40

\* C25: once the match has started the score is a natural number that never
\* decreases and changes in two stages only: in the food stage, by the number of
\* pellets the player's cells ate (their mass gain), and in the cross-actor stage,
\* by the floors of the masses of the bot cells the player ate.
C25_ScoreOnlyByPlayerEating ==
    [][ gameStarted =>
          /\ score' \in Nat
          /\ score' >= score
          /\ score' # score =>
                \/ /\ FoodStep
                   /\ TotalMass(playerCells') = TotalMass(playerCells) + M(score' - score)
                \/ /\ CrossStep
                   /\ score' - score
                        = FloorSum(FlatCells(<<>>, bots, 1),
                                   Gone(FlatCells(<<>>, bots, 1), FlatCells(<<>>, bots', 1))) ]_vars

\* in one tick the player split, ate pellets and a bot cell; the score counts the
\* pellets and the bot cell only
C25_Witness ==
    /\ pc = "virus"
    /\ ticks = 1
    /\ {"split", "eatFood", "eatBot"} \subseteq events
    /\ score > 27

\* C26: in every reachable state every cell of the player and of every bot has
\* the radius massToRadius gives for its mass: spawning, splitting, ejecting,
\* decay, merging, eating and virus explosions all set the radius with the mass.
C26_RadiusFollowsMass ==
    \A c \in AllCells : c.radius = massToRadius(c.mass)

\* in one tick the player's cells split, ate pellets and ate a bot cell, and
\* every mass has changed from the masses the tick started with
C26_Witness ==
    /\ pc = "virus"
    /\ ticks = 1
    /\ {"split", "eatFood", "eatBot"} \subseteq events
    /\ Len(playerCells) = 2
    /\ \A k \in 1..Len(playerCells) : playerCells[k].mass # M(40)

\* the viruses of vs that a player cell or a bot cell explodes on: the centre
\* inside the cell and the cell heavier than VIRUS_MASS * 1.1
Hit(pcs, bs, vs) ==
    {i \in 1..Len(vs) :
        \/ Exploders(pcs, vs[i]) # {}
        \/ \E b \in 1..Len(bs) : \E k \in 1..Len(bs[b].cells) :
              Inside(bs[b].cells[k], vs[i]) /\ bs[b].cells[k].mass > M(110)}

\* C27: the match starts with VIRUS_COUNT viruses, and from then on no step
\* adds a virus: every virus after a step was there before it, only the virus
\* stage changes the collection, and what it removes are viruses a cell exploded
\* on, one for one (with one virus exploded on, exactly that one).
C27_VirusesNeverReplenished ==
    [][ /\ (~gameStarted /\ gameStarted') => Len(viruses') = VIRUS_COUNT
        /\ gameStarted =>
              /\ Len(viruses') <= Len(viruses)
              /\ \A k \in 1..Len(viruses') : \E i \in 1..Len(viruses) : viruses'[k] = viruses[i]
              /\ ~VirusStep => viruses' = viruses
              /\ VirusStep =>
                    /\ Gone(viruses, viruses') \subseteq Hit(playerCells, bots, viruses)
                    /\ Len(viruses') = Len(viruses) - Cardinality(Gone(viruses, viruses'))
                    /\ Cardinality(Hit(playerCells, bots, viruses)) = 1 =>
                          Gone(viruses, viruses') = Hit(playerCells, bots, viruses) ]_vars

\* of two viruses the one a player cell exploded on is gone and the other is
\* still there
C27_Witness ==
    /\ pc = "ejected"
    /\ gameStarted
    /\ "explode" \in events
    /\ Len(viruses) = 1
    /\ viruses[1].x = 3000 * PosUnit
    /\ Len(playerCells) = 16

\* C28: when a tick has run all its stages the ejected-mass collection holds at
\* most EJECTED_CAP blobs, however many cells ejected in the tick.
C28_BlobCapAtTickEnd ==
    pc \in {"camera", "idle"} => Len(ejectedMass) <= EJECTED_CAP

\* more cells than the cap ejected in one tick (each went from 40 to 24) and
\* the collection ends the tick exactly full
C28_Witness ==
    /\ pc = "camera"
    /\ "eject" \in events
    /\ Cardinality({k \in 1..Len(playerCells) : playerCells[k].mass = M(24)}) > EJECTED_CAP
    /\ Len(ejectedMass) = EJECTED_CAP

\* the longest gap between two frames of the second specification
LongestGap == CHOOSE g \in LiveGaps : \A h \in LiveGaps : h <= g

\* the match is running and has more time left than the respawn delay and two
\* frames: one frame to notice the death, one to pass the delay
TimeToRespawn ==
    /\ gameStarted /\ ~gameOver
    /\ gameEndTime - clock > RESPAWN_DELAY_MS + 2 * LongestGap

\* C29: with ticks running and time advancing, the player without cells
\* eventually has exactly one cell again or the match is over, and so has every
\* bot without cells; and when the match still has time for the delay and two
\* frames it is the respawn that comes, not the end of the match.
C29_DeadActorsRespawn ==
    /\ (gameStarted /\ playerCells = <<>>) ~> (Len(playerCells) = 1 \/ gameOver)
    /\ (TimeToRespawn /\ playerCells = <<>>) ~> (Len(playerCells) = 1)
    /\ \A i \in 1..BOT_COUNT :
          /\ (gameStarted /\ bots[i].cells = <<>>) ~> (Len(bots[i].cells) = 1 \/ gameOver)
          /\ (TimeToRespawn /\ bots[i].cells = <<>>) ~> (Len(bots[i].cells) = 1)

\* the player died during the match, its death was noticed by the next tick,
\* and a later tick has just given it one fresh cell
C29_Witness ==
    /\ pc = "split"
    /\ ticks >= 3
    /\ ~gameOver
    /\ Len(playerCells) = 1
    /\ playerCells[1].createdAt = clock
    /\ playerDeadAt = Null

\* the viruses that bot cell c takes: its centre inside c, c heavier than
\* VIRUS_MASS * 1.1, and no player cell exploding on it
Taken(c, pcs, vs) ==
    {i \in 1..Len(vs) :
        Inside(c, vs[i]) /\ c.mass > M(110) /\ Exploders(pcs, vs[i]) = {}}

\* C30: in the virus stage a bot cell that is heavier than 110 and contains the
\* centre of one virus no player cell explodes on ends with half of its mass
\* plus the bonus of 150 and the radius of that mass; that virus is removed; a
\* bot cell that takes no virus is left as it is, and no bot gets or loses a
\* cell.
C30_BotOnVirus ==
    [][VirusStep =>
         \A b \in 1..Len(bots) :
            /\ Len(bots'[b].cells) = Len(bots[b].cells)
            /\ \A k \in 1..Len(bots[b].cells) :
                  LET c  == bots[b].cells[k]
                      d  == bots'[b].cells[k]
                      on == Taken(c, playerCells, viruses)
                  IN  /\ on = {} => d = c
                      /\ Cardinality(on) = 1 =>
                            /\ 2 * d.mass = c.mass + M(VIRUS_BONUS_MASS)
                            /\ d = [c EXCEPT !.mass = d.mass,
                                             !.radius = massToRadius(d.mass)]
                            /\ on \subseteq Gone(viruses, viruses') ]_vars

\* a bot cell of mass 120 (less one tick of decay) took the virus: it has one
\* cell of half of 270, and the virus is gone
C30_Witness ==
    /\ pc = "ejected"
    /\ ticks = 1
    /\ "explode" \notin events
    /\ viruses = <<>>
    /\ Len(bots[1].cells) = 1
    /\ bots[1].cells[1].mass > M(134)
    /\ bots[1].cells[1].mass < M(135)

\* the movement stage of the player and the stage of the bots are about to run
MoveStep == pc = "move"
BotsStep == pc = "bots"

\* cell d is cell c after one movement step: above the threshold it has lost one
\* ten-thousandth of its mass (to half a grain), at or below it it has its mass
Decayed(c, d) ==
    /\ d.id = c.id
    /\ c.mass > M(MASS_DECAY_THRESHOLD) =>
          /\ d.mass < c.mass
          /\ 2 * Abs(d.mass - (c.mass - RDiv(c.mass, 10000))) <= MassGrain
    /\ c.mass <= M(MASS_DECAY_THRESHOLD) => d.mass = c.mass

\* C31: the movement step of the player multiplies the mass of each of its cells
\* by MASS_DECAY_RATE once if the mass is above MASS_DECAY_THRESHOLD and leaves
\* it alone otherwise, and the step of the bots does the same to every bot cell.
C31_DecayAboveThreshold ==
    [][ /\ MoveStep =>
              /\ Len(playerCells') = Len(playerCells)
              /\ \A k \in 1..Len(playerCells) : Decayed(playerCells[k], playerCells'[k])
              /\ bots' = bots
        /\ BotsStep =>
              /\ playerCells' = playerCells
              /\ \A b \in 1..Len(bots) :
                    /\ Len(bots'[b].cells) = Len(bots[b].cells)
                    /\ \A k \in 1..Len(bots[b].cells) :
                          Decayed(bots[b].cells[k], bots'[b].cells[k]) ]_vars

\* after the stage of the bots of one tick the bot cells of 120 and 130 have
\* decayed once and the player's cell of 20 has the mass it had
C31_Witness ==
    /\ pc = "selfcollide"
    /\ ticks = 1
    /\ Len(playerCells) = 1
    /\ playerCells[1].mass = M(20)
    /\ bots[1].cells # <<>> /\ bots[2].cells # <<>>
    /\ bots[1].cells[1].mass = RoundMass(M(120) - RDiv(M(120), 10000))
    /\ bots[2].cells[1].mass = RoundMass(M(130) - RDiv(M(130), 10000))

\* the stage that follows stage p in a tick
After(p) ==
    CASE p = "idle"        -> "split"
      [] p = "split"       -> "eject"
      [] p = "eject"       -> "move"
      [] p = "move"        -> "bots"
      [] p = "bots"        -> "selfcollide"
      [] p = "selfcollide" -> "food"
      [] p = "food"        -> "cross"
      [] p = "cross"       -> "virus"
      [] p = "virus"       -> "ejected"
      [] p = "ejected"     -> "camera"
      [] p = "camera"      -> "idle"

\* the identifiers of the player's cells pcs and of the cells of the bots bs
CellIds(pcs, bs) ==
    {pcs[k].id : k \in 1..Len(pcs)}
        \cup UNION {{bs[b].cells[k].id : k \in 1..Len(bs[b].cells)} : b \in 1..Len(bs)}

\* C32: the stages of a tick run in one order: after the game-over check and
\* the respawn checks come split, eject, player movement, bots, self-collision,
\* pellets with their replenishment, cross-actor eating, viruses, ejected mass
\* with its cap, camera (a player without cells has no split, eject and
\* movement stage); time stands still within the tick.  The pellet stage
\* removes no cell and fills the pellets up before the cross-actor stage, which
\* compares the masses the cells have then: a bot cell inside a player cell that
\* is by then more than 1.25 times as heavy is eaten when no bot cell can eat a
\* player cell.  The stages after it work on the cells that are left: no cell
\* from before the cross-actor stage comes back.
C32_StageOrder ==
    [][ /\ pc # "idle" =>
              /\ pc' = IF pc = "split" /\ playerCells = <<>> THEN "bots" ELSE After(pc)
              /\ clock' = clock /\ ticks' = ticks
        /\ pc = "idle" => pc' \in {"idle", "split"}
        /\ (pc = "idle" /\ pc' = "split") =>
              /\ ticks' = ticks + 1 /\ clock' > clock
              /\ ~gameOver' /\ clock' < gameEndTime
        /\ FoodStep =>
              /\ CellIds(playerCells', bots') = CellIds(playerCells, bots)
              /\ Len(foods') = FOOD_COUNT
        /\ CrossStep =>
              /\ foods' = foods
              /\ (\A b \in 1..Len(bots) : \A k \in 1..Len(bots[b].cells) :
                     \A j \in 1..Len(playerCells) :
                        ~CanHaveEaten(bots[b].cells[k], playerCells[j]))
                  => \A b \in 1..Len(bots) : \A k \in 1..Len(bots[b].cells) :
                        (\E j \in 1..Len(playerCells) :
                             CanHaveEaten(playerCells[j], bots[b].cells[k]))
                        => bots[b].cells[k].id \notin CellIds(playerCells', bots')
        /\ pc \in {"virus", "ejected", "camera"} =>
              \A id \in CellIds(playerCells', bots') :
                  id \in CellIds(playerCells, bots) \/ id >= nextId ]_vars

\* a cell of 40 ate two pellets in the pellet stage and then, in the cross-actor
\* stage of the same tick, the bot cell of 33 it could not have eaten at 40
C32_Witness ==
    /\ pc = "virus"
    /\ ticks = 1
    /\ {"eatFood", "eatBot"} \subseteq events
    /\ Len(playerCells) = 1
    /\ playerCells[1].mass = M(40 + 2 + 33)
    /\ bots[1].cells = <<>>

C34_BotSlotsKept ==
    [][ /\ gameStarted' => Len(bots') = BOT_COUNT
        /\ gameStarted =>
              \A i \in 1..BOT_COUNT :
                  bots'[i].id # bots[i].id =>
                      /\ pc = "idle" /\ pc' = "split"
                      /\ bots[i].cells = <<>>
                      /\ Len(bots'[i].cells) = 1 ]_vars

\* the first bot lost its cell to the player in the first tick and was still in
\* its slot, empty, when the second tick noted the time of its death
C34_Witness ==
    /\ pc = "split"
    /\ ticks = 2
    /\ Len(bots) = BOT_COUNT
    /\ bots[1].id = 50
    /\ bots[1].cells = <<>>
    /\ bots[1].deadAt = clock
    /\ Len(bots[2].cells) = 1

\* C35: in every reachable state every cell of the player and of every bot has
\* a mass of at least INITIAL_MASS.
C35_MassAtLeastInitial ==
    \A c \in AllCells : c.mass >= M(INITIAL_MASS)

\* in one tick the player's cells split and one of them exploded on a virus;
\* the halves of the cells of 40 and the cell of 20 are the lightest
C35_Witness ==
    /\ pc = "camera"
    /\ {"split", "explode"} \subseteq events
    /\ \E k \in 1..Len(playerCells) : playerCells[k].mass <= M(20)

\* C36: whenever the application enters the PLAYING stage, by the first start
\* or by Play Again after a game over, the world has been initialised before
\* the next tick: the match is started and not over, the score is 0 and the
\* match ends GAME_DURATION_MS from now.
C36_EveryStartInitialises ==
    [][ (stage # "PLAYING" /\ stage' = "PLAYING") =>
            /\ gameStarted' /\ ~gameOver'
            /\ score' = 0
            /\ gameEndTime' = clock' + GAME_DURATION_MS ]_vars

\* a step in which the loop effect runs again: the renders of HandleStart and
\* HandleRestart, and the render after the match is over
EffectRuns ==
    \/ stage' # stage /\ stage' \in {"PLAYING", "MENU"}
    \/ gameStartedProp' # gameStartedProp

\* C37: at most one frame of the game loop is pending at any time; update() is
\* never called after the loop effect was cleaned up for a render with
\* gameStarted false; and every run of the loop effect cancels the frame
\* requested before it, so that afterwards only a frame requested by that run
\* can be pending.
C37_OneFramePending ==
    /\ [](Cardinality(frames) <= 1)
    /\ [][ ticks' # ticks => gameStartedProp ]_vars
    /\ [][ EffectRuns => /\ requestRef \notin frames'
                         /\ frames' \subseteq {requestRef'} ]_vars

\* the frame requested by the callback that ended the match was pending when the
\* game over screen was rendered, and the cleanup of the loop effect cancelled it
C37_Witness ==
    /\ stage = "GAME_OVER"
    /\ ~gameStartedProp
    /\ requestRef >= 2
    /\ frames = {}

====
